---------------------------- MODULE Spec2Model ----------------------------
(***************************************************************************)
(* Model of the pomowise session timer (src/src/timer.rs) as it is driven  *)
(* by the application (src/src/app.rs).                                    *)
(*                                                                         *)
(* Time is a discrete monotonic clock `now` whose unit is one minute: the  *)
(* three phase durations of timer.rs are whole minutes, and every          *)
(* comparison and subtraction the timer makes is on differences of clock   *)
(* readings.  A handler runs within one instant of this clock.             *)
(*                                                                         *)
(* The animation engine (src/src/animation/mod.rs) compares elapsed times  *)
(* with 100 ms, 200 ms and 150 s; it reads a clock `now_ms` whose unit is  *)
(* one millisecond and which is observed at the readings AnimTimes.        *)
(***************************************************************************)
EXTENDS Integers, Sequences, FiniteSets, TLC

\* ------------------------------------------------------------------ bounds
\* The clock stops advancing at MaxTime: long enough for a Work phase and the
\* ShortBreak after it, or for a LongBreak reached by skipping, to run out by
\* ticking.
MaxTime == 30

\* The animation clock is observed every 100 ms, FineSteps times after its
\* start and FineSteps times from 100 ms before the theme rotation is due.
FineSteps == 2
\* The seeds the clock hands to a theme selection are 0..MaxSeed, the last
\* index of the theme list and the length of the list (see Seeds).
MaxSeed == 1

\* --------------------------------------------------------------- constants
\* Duration::from_secs(25 * 60), in minutes
WORK_DURATION == 25
\* Duration::from_secs(5 * 60), in minutes
SHORT_BREAK_DURATION == 5
\* Duration::from_secs(15 * 60), in minutes
LONG_BREAK_DURATION == 15
WORK_LAPS == 10
SHORT_BREAK_LAPS == 3
\* the cycle_position at which a finished Work phase is followed by LongBreak
LongBreakAfter == 4
\* THEME_ROTATION_SECS, the theme rotation interval in seconds
THEME_ROTATION_SECS == 150
\* frames per second during a ShortBreak, and otherwise
BREAK_FPS == 5
NORMAL_FPS == 10
\* the poll timeout of the main loop (tick_rate), in ms: the spacing of the
\* observed readings of the animation clock
ClockGrainMs == 100

VARIABLES
    now,             \* the monotonic clock read by Instant::now()
    state,           \* PomodoroTimer.state : TimerState
    remaining,       \* PomodoroTimer.remaining : Duration
    cycle_position,  \* PomodoroTimer.cycle_position : u8
    last_tick,       \* PomodoroTimer.last_tick : Option<Instant>
    notified,        \* what the last App::tick passed to notify_session_end
    hist,            \* history of the run (observations only, never read by the program)
    now_ms,            \* the monotonic clock as the animation engine reads it
    frame_index,       \* AnimationEngine.frame_index : usize
    current_theme,     \* AnimationEngine.current_theme : ThemeType
    current_font,      \* AnimationEngine.current_font : DigitFont
    last_frame_time,   \* AnimationEngine.last_frame_time : Instant
    last_theme_change, \* AnimationEngine.last_theme_change : Instant
    fps,               \* AnimationEngine.fps : u8
    anim_hist,         \* history of the animation engine (observations only)
    app,               \* the fields of App beside timer and animation
    ops,               \* how many counted keys the app harness has pressed so far
    loop,              \* where run_app's loop stands, and what it did since its last draw
    selected,          \* what the last call of select_font_for_size returned
    picker_hist,       \* the theme that was active when the open picker was opened
                       \* (observation only, never read by the program)
    tray,              \* the tray process: its loop and what its icon shows
    status_file        \* ~/.pomowise/status.json as the file system holds it

timerVars == <<now, state, remaining, cycle_position, last_tick, notified, hist>>
animVars == <<now_ms, frame_index, current_theme, current_font, last_frame_time,
              last_theme_change, fps, anim_hist>>
appVars == <<app, ops, loop, selected, picker_hist>>
trayVars == <<tray, status_file>>
vars == <<now, state, remaining, cycle_position, last_tick, notified, hist,
          now_ms, frame_index, current_theme, current_font, last_frame_time,
          last_theme_change, fps, anim_hist, app, ops, loop, selected,
          picker_hist, tray, status_file>>

\* ---------------------------------------------------------------- TimerState
Idle == [kind |-> "Idle"]
Work(l) == [kind |-> "Work", lap |-> l]
ShortBreak(l) == [kind |-> "ShortBreak", lap |-> l]
LongBreak == [kind |-> "LongBreak"]
Paused(inner) == [kind |-> "Paused", inner |-> inner]

\* Option<Instant>
None == <<>>
Some(t) == <<t>>

\* the tray process is not running, and there is no status file
NoTray == [pc |-> "off", shown |-> None, last_read |-> ""]
NoFile == [kind |-> "missing"]

IsPaused(s) == s.kind = "Paused"

\* `match &self.state { Paused(inner) => inner, other => other }`
InnerState(s) == IF s.kind = "Paused" THEN s.inner ELSE s

\* matches!(state, Idle | Paused(_)) negated: the phase is actively running
IsRunning(s) == s.kind \notin {"Idle", "Paused"}

\* total duration of the phase a state stands for (0 when there is none)
TotalDuration(s) ==
    LET i == InnerState(s) IN
    CASE i.kind = "Work" -> WORK_DURATION
      [] i.kind = "ShortBreak" -> SHORT_BREAK_DURATION
      [] i.kind = "LongBreak" -> LONG_BREAK_DURATION
      [] OTHER -> 0

\* --------------------------------------------------------------- the timer
\* The timer as one value, so that an operation is a function on timers.
Timer == [state |-> state, remaining |-> remaining,
          cycle_position |-> cycle_position, last_tick |-> last_tick]

\* PomodoroTimer::new
NewTimer == [state |-> Idle, remaining |-> 0, cycle_position |-> 0, last_tick |-> None]

\* start that forgets `cycle_position = 0`
StartOf_KeepsCycle(t, n) ==
    [state |-> Work(1), remaining |-> WORK_DURATION,
     cycle_position |-> t.cycle_position, last_tick |-> Some(n)]

\* PomodoroTimer::start
StartOf(t, n) ==
    [state |-> Work(1), remaining |-> WORK_DURATION,
     cycle_position |-> 0, last_tick |-> Some(n)]

\* toggle_pause that leaves the wall-clock reference alone: a pause does not
\* clear it and a resume does not re-arm it
TogglePauseOf_KeepsReference(t, n) ==
    CASE t.state.kind = "Paused" -> [t EXCEPT !.state = t.state.inner]
      [] t.state.kind = "Idle" -> t
      [] OTHER -> [t EXCEPT !.state = Paused(t.state)]

\* toggle_pause without the Idle arm: an Idle timer is paused like any other
TogglePauseOf_PausesIdle(t, n) ==
    CASE t.state.kind = "Paused" ->
            [t EXCEPT !.state = t.state.inner, !.last_tick = Some(n)]
      [] OTHER ->
            [t EXCEPT !.state = Paused(t.state), !.last_tick = None]

\* toggle_pause whose resume restarts the phase instead of continuing it
TogglePauseOf_ResumeRestarts(t, n) ==
    CASE t.state.kind = "Paused" ->
            [t EXCEPT !.state = t.state.inner, !.last_tick = Some(n),
                      !.remaining = TotalDuration(t.state)]
      [] t.state.kind = "Idle" -> t
      [] OTHER ->
            [t EXCEPT !.state = Paused(t.state), !.last_tick = None]

\* PomodoroTimer::toggle_pause
TogglePauseOf(t, n) ==
    CASE t.state.kind = "Paused" ->
            [t EXCEPT !.state = t.state.inner, !.last_tick = Some(n)]
      [] t.state.kind = "Idle" -> t
      [] OTHER ->
            [t EXCEPT !.state = Paused(t.state), !.last_tick = None]

\* reset_current_session that does not re-arm the clock
ResetCurrentSessionOf_NoRearm(t, n) ==
    LET inner_state == InnerState(t.state) IN
    CASE inner_state.kind = "Work" ->
            [t EXCEPT !.state = Work(1), !.remaining = WORK_DURATION]
      [] inner_state.kind = "ShortBreak" ->
            [t EXCEPT !.state = ShortBreak(1), !.remaining = SHORT_BREAK_DURATION]
      [] inner_state.kind = "LongBreak" ->
            [t EXCEPT !.state = LongBreak, !.remaining = LONG_BREAK_DURATION]
      [] OTHER -> t

\* reset_current_session that gives every phase kind the work duration
ResetCurrentSessionOf_WorkDuration(t, n) ==
    LET inner_state == InnerState(t.state) IN
    CASE inner_state.kind = "Work" ->
            [t EXCEPT !.state = Work(1), !.remaining = WORK_DURATION,
                      !.last_tick = Some(n)]
      [] inner_state.kind = "ShortBreak" ->
            [t EXCEPT !.state = ShortBreak(1), !.remaining = WORK_DURATION,
                      !.last_tick = Some(n)]
      [] inner_state.kind = "LongBreak" ->
            [t EXCEPT !.state = LongBreak, !.remaining = WORK_DURATION,
                      !.last_tick = Some(n)]
      [] OTHER -> t

\* PomodoroTimer::reset_current_session
ResetCurrentSessionOf(t, n) ==
    LET inner_state == InnerState(t.state) IN
    CASE inner_state.kind = "Work" ->
            [t EXCEPT !.state = Work(1), !.remaining = WORK_DURATION,
                      !.last_tick = Some(n)]
      [] inner_state.kind = "ShortBreak" ->
            [t EXCEPT !.state = ShortBreak(1), !.remaining = SHORT_BREAK_DURATION,
                      !.last_tick = Some(n)]
      [] inner_state.kind = "LongBreak" ->
            [t EXCEPT !.state = LongBreak, !.remaining = LONG_BREAK_DURATION,
                      !.last_tick = Some(n)]
      [] OTHER -> t

\* advance_state with `cycle_position > 4` for `cycle_position >= 4`
AdvanceStateOf_LateLongBreak(t, n) ==
    LET current_state == InnerState(t.state) IN
    CASE current_state.kind = "Work" ->
            LET cp == t.cycle_position + 1 IN
            IF cp > LongBreakAfter
            THEN [state |-> LongBreak, remaining |-> LONG_BREAK_DURATION,
                  cycle_position |-> cp, last_tick |-> Some(n)]
            ELSE [state |-> ShortBreak(1), remaining |-> SHORT_BREAK_DURATION,
                  cycle_position |-> cp, last_tick |-> Some(n)]
      [] current_state.kind = "ShortBreak" ->
            [state |-> Work(1), remaining |-> WORK_DURATION,
             cycle_position |-> t.cycle_position, last_tick |-> Some(n)]
      [] current_state.kind = "LongBreak" ->
            [state |-> Work(1), remaining |-> WORK_DURATION,
             cycle_position |-> 0, last_tick |-> Some(n)]
      [] current_state.kind = "Idle" -> StartOf(t, n)
      [] OTHER -> [t EXCEPT !.state = [kind |-> "Panic"]]

\* advance_state whose LongBreak arm forgets `cycle_position = 0`
AdvanceStateOf_NoCycleReset(t, n) ==
    LET current_state == InnerState(t.state) IN
    CASE current_state.kind = "Work" ->
            LET cp == t.cycle_position + 1 IN
            IF cp >= LongBreakAfter
            THEN [state |-> LongBreak, remaining |-> LONG_BREAK_DURATION,
                  cycle_position |-> cp, last_tick |-> Some(n)]
            ELSE [state |-> ShortBreak(1), remaining |-> SHORT_BREAK_DURATION,
                  cycle_position |-> cp, last_tick |-> Some(n)]
      [] current_state.kind = "ShortBreak" ->
            [state |-> Work(1), remaining |-> WORK_DURATION,
             cycle_position |-> t.cycle_position, last_tick |-> Some(n)]
      [] current_state.kind = "LongBreak" ->
            [state |-> Work(1), remaining |-> WORK_DURATION,
             cycle_position |-> t.cycle_position, last_tick |-> Some(n)]
      [] current_state.kind = "Idle" -> StartOf(t, n)
      [] OTHER -> [t EXCEPT !.state = [kind |-> "Panic"]]

\* advance_state that keeps a paused timer paused: the next phase is wrapped
\* in Paused again and the clock is left disarmed
AdvanceStateOf_KeepsPause(t, n) ==
    LET current_state == InnerState(t.state)
        wrap(s) == IF IsPaused(t.state) THEN Paused(s) ELSE s
        tick == IF IsPaused(t.state) THEN None ELSE Some(n)
    IN
    CASE current_state.kind = "Work" ->
            LET cp == t.cycle_position + 1 IN
            IF cp >= LongBreakAfter
            THEN [state |-> wrap(LongBreak), remaining |-> LONG_BREAK_DURATION,
                  cycle_position |-> cp, last_tick |-> tick]
            ELSE [state |-> wrap(ShortBreak(1)), remaining |-> SHORT_BREAK_DURATION,
                  cycle_position |-> cp, last_tick |-> tick]
      [] current_state.kind = "ShortBreak" ->
            [state |-> wrap(Work(1)), remaining |-> WORK_DURATION,
             cycle_position |-> t.cycle_position, last_tick |-> tick]
      [] current_state.kind = "LongBreak" ->
            [state |-> wrap(Work(1)), remaining |-> WORK_DURATION,
             cycle_position |-> 0, last_tick |-> tick]
      [] current_state.kind = "Idle" -> StartOf(t, n)
      [] OTHER -> [t EXCEPT !.state = [kind |-> "Panic"]]

\* advance_state whose LongBreak arm goes on to a ShortBreak
AdvanceStateOf_BreakAfterLongBreak(t, n) ==
    LET current_state == InnerState(t.state) IN
    CASE current_state.kind = "Work" ->
            LET cp == t.cycle_position + 1 IN
            IF cp >= LongBreakAfter
            THEN [state |-> LongBreak, remaining |-> LONG_BREAK_DURATION,
                  cycle_position |-> cp, last_tick |-> Some(n)]
            ELSE [state |-> ShortBreak(1), remaining |-> SHORT_BREAK_DURATION,
                  cycle_position |-> cp, last_tick |-> Some(n)]
      [] current_state.kind = "ShortBreak" ->
            [state |-> Work(1), remaining |-> WORK_DURATION,
             cycle_position |-> t.cycle_position, last_tick |-> Some(n)]
      [] current_state.kind = "LongBreak" ->
            [state |-> ShortBreak(1), remaining |-> SHORT_BREAK_DURATION,
             cycle_position |-> 0, last_tick |-> Some(n)]
      [] current_state.kind = "Idle" -> StartOf(t, n)
      [] OTHER -> [t EXCEPT !.state = [kind |-> "Panic"]]

\* PomodoroTimer::advance_state
AdvanceStateOf(t, n) ==
    LET current_state == InnerState(t.state) IN
    CASE current_state.kind = "Work" ->
            LET cp == t.cycle_position + 1 IN
            IF cp >= LongBreakAfter
            THEN [state |-> LongBreak, remaining |-> LONG_BREAK_DURATION,
                  cycle_position |-> cp, last_tick |-> Some(n)]
            ELSE [state |-> ShortBreak(1), remaining |-> SHORT_BREAK_DURATION,
                  cycle_position |-> cp, last_tick |-> Some(n)]
      [] current_state.kind = "ShortBreak" ->
            [state |-> Work(1), remaining |-> WORK_DURATION,
             cycle_position |-> t.cycle_position, last_tick |-> Some(n)]
      [] current_state.kind = "LongBreak" ->
            [state |-> Work(1), remaining |-> WORK_DURATION,
             cycle_position |-> 0, last_tick |-> Some(n)]
      [] current_state.kind = "Idle" -> StartOf(t, n)
      [] OTHER -> [t EXCEPT !.state = [kind |-> "Panic"]]

\* tick with `elapsed > remaining` for `elapsed >= remaining`
TickOf_StrictExpiry(t, n) ==
    IF t.state.kind \in {"Idle", "Paused"} THEN t
    ELSE IF t.last_tick = None THEN t
    ELSE LET elapsed == n - t.last_tick[1]
             armed == [t EXCEPT !.last_tick = Some(n)]
         IN  IF elapsed > t.remaining
             THEN AdvanceStateOf([armed EXCEPT !.remaining = 0], n)
             ELSE [armed EXCEPT !.remaining = t.remaining - elapsed]

\* tick that re-arms the wall-clock reference before looking at the state
TickOf_ArmsFirst(t, n) ==
    LET armed == [t EXCEPT !.last_tick = Some(n)] IN
    IF t.state.kind \in {"Idle", "Paused"} THEN armed
    ELSE IF t.last_tick = None THEN armed
    ELSE LET elapsed == n - t.last_tick[1]
         IN  IF elapsed >= t.remaining
             THEN AdvanceStateOf([armed EXCEPT !.remaining = 0], n)
             ELSE [armed EXCEPT !.remaining = t.remaining - elapsed]

\* tick that charges the time elapsed beyond `remaining` to the next phase
TickOf_CarriesExcess(t, n) ==
    IF t.state.kind \in {"Idle", "Paused"} THEN t
    ELSE IF t.last_tick = None THEN t
    ELSE LET elapsed == n - t.last_tick[1]
             armed == [t EXCEPT !.last_tick = Some(n)]
             next == AdvanceStateOf([armed EXCEPT !.remaining = 0], n)
             excess == elapsed - t.remaining
         IN  IF elapsed >= t.remaining
             THEN [next EXCEPT !.remaining = IF excess < @ THEN @ - excess ELSE 0]
             ELSE [armed EXCEPT !.remaining = t.remaining - elapsed]

\* PomodoroTimer::tick
TickOf(t, n) ==
    IF t.state.kind \in {"Idle", "Paused"} THEN t
    ELSE IF t.last_tick = None THEN t
    ELSE LET elapsed == n - t.last_tick[1]
             armed == [t EXCEPT !.last_tick = Some(n)]
         IN  IF elapsed >= t.remaining
             THEN AdvanceStateOf([armed EXCEPT !.remaining = 0], n)
             ELSE [armed EXCEPT !.remaining = t.remaining - elapsed]

\* session_progress that returns the fraction remaining, not the fraction done
SessionProgress_FractionLeft(s, r) ==
    IF TotalDuration(s) = 0 THEN [num |-> 0, den |-> 1]
    ELSE [num |-> r, den |-> TotalDuration(s)]

\* PomodoroTimer::session_progress for state s and remaining r, as the exact
\* fraction num/den: 0.0 when there is no phase, else 1.0 - remaining/total
SessionProgress(s, r) ==
    IF TotalDuration(s) = 0 THEN [num |-> 0, den |-> 1]
    ELSE [num |-> TotalDuration(s) - r, den |-> TotalDuration(s)]

\* a notification that names the phase that begins, not the one that ended
NotificationOf_NamesNewPhase(previous_state, new_state) ==
    IF new_state.kind # "Idle" /\ new_state.kind # "Paused"
       /\ previous_state.kind # new_state.kind
    THEN CASE new_state.kind = "Work" -> "Work session"
           [] new_state.kind = "ShortBreak" -> "Short break"
           [] new_state.kind = "LongBreak" -> "Long break"
           [] OTHER -> ""
    ELSE ""

\* App::tick, the session-end notification: the message handed to
\* notify_session_end for the step previous_state -> new_state ("" when none)
NotificationOf(previous_state, new_state) ==
    IF new_state.kind # "Idle" /\ new_state.kind # "Paused"
       /\ previous_state.kind # new_state.kind
    THEN CASE previous_state.kind = "Work" -> "Work session"
           [] previous_state.kind = "ShortBreak" -> "Short break"
           [] previous_state.kind = "LongBreak" -> "Long break"
           [] OTHER -> ""
    ELSE ""

\* ------------------------------------------------------------ the themes
\* ThemeType::all()
ThemeAll ==
    << "Matrix", "Fire", "Starfield", "Plasma", "RainDrops", "RadioWaves",
       "SpinningShapes", "Fireworks", "Aurora", "Ocean", "DNA", "Bubbles",
       "Electric", "Snowfall", "Nature", "Geometric", "Glitch", "Minimal",
       "Seasonal", "Landscape", "Claude", "GitHub", "Medieval", "Synthwave" >>

\* enum ThemeType
ThemeType == {ThemeAll[i] : i \in 1..Len(ThemeAll)}

\* themes[idx] of the code, idx counted from 0
ThemeAt(idx) == ThemeAll[idx + 1]

\* the loop of random_except: `while themes[idx] == current { idx = (idx + 1) % len }`
RECURSIVE ProbeFrom(_, _)
ProbeFrom(idx, current) ==
    IF ThemeAt(idx) = current
    THEN ProbeFrom((idx + 1) % Len(ThemeAll), current)
    ELSE idx

\* random_except that takes the seeded theme without comparing it
RandomExcept_NoProbe(current, seed) == ThemeAt(seed % Len(ThemeAll))

\* ThemeType::random_except, the clock-derived seed being an input
RandomExcept(current, seed) ==
    ThemeAt(ProbeFrom(seed % Len(ThemeAll), current))

\* ThemeType::random
RandomTheme(seed) == ThemeAt(seed % Len(ThemeAll))

\* ---------------------------------------------------- the animation engine
\* The engine as one value, so that an operation is a function on engines.
Animation ==
    [frame_index |-> frame_index, current_theme |-> current_theme,
     current_font |-> current_font, last_frame_time |-> last_frame_time,
     last_theme_change |-> last_theme_change, fps |-> fps]

\* AnimationEngine::new at clock reading n (ms)
NewAnimation(n, seed) ==
    [frame_index |-> 0, current_theme |-> RandomTheme(seed),
     current_font |-> "Block3D", last_frame_time |-> n,
     last_theme_change |-> n, fps |-> NORMAL_FPS]

\* DigitFont::all()
DigitFontAll == << "Classic", "Block3D", "Outlined", "Isometric", "LCD" >>

\* next that stops at the last font of all() instead of wrapping around
NextFont_NoWrap(font) ==
    LET idx == IF \E i \in 1..Len(DigitFontAll) : DigitFontAll[i] = font
               THEN (CHOOSE i \in 1..Len(DigitFontAll) : DigitFontAll[i] = font) - 1
               ELSE 0
    IN  DigitFontAll[(IF idx + 1 < Len(DigitFontAll) THEN idx + 1 ELSE idx) + 1]

\* DigitFont::next: the font after `font` in all(); a font that all() does not
\* list is treated as position 0
NextFont(font) ==
    LET idx == IF \E i \in 1..Len(DigitFontAll) : DigitFontAll[i] = font
               THEN (CHOOSE i \in 1..Len(DigitFontAll) : DigitFontAll[i] = font) - 1
               ELSE 0
    IN  DigitFontAll[((idx + 1) % Len(DigitFontAll)) + 1]

\* `for _ in 0..k { font = font.next(); }` of test_font_cycle
RECURSIVE NextFontTimes(_, _)
NextFontTimes(font, k) ==
    IF k = 0 THEN font ELSE NextFontTimes(NextFont(font), k - 1)

\* AnimationEngine::next_font
NextFontOf(a) == [a EXCEPT !.current_font = NextFont(@)]

\* reset that also restarts the theme rotation interval
AnimResetOf_RestartsRotation(a, n) ==
    [a EXCEPT !.frame_index = 0, !.last_frame_time = n, !.last_theme_change = n]

\* AnimationEngine::reset
AnimResetOf(a, n) == [a EXCEPT !.frame_index = 0, !.last_frame_time = n]

\* Duration::from_millis(1000 / self.fps as u64)
FrameDurationMs(f) == 1000 \div f

\* AnimationEngine::should_rotate_theme
ShouldRotateTheme(a, n) == n - a.last_theme_change >= THEME_ROTATION_SECS * 1000

\* rotate_theme that leaves the rotation timer running
RotateThemeOf_KeepsTimer(a, n, seed) ==
    [a EXCEPT !.current_theme = RandomExcept(a.current_theme, seed)]

\* rotate_theme that honours the rotation interval
RotateThemeOf_OnlyWhenDue(a, n, seed) ==
    IF ShouldRotateTheme(a, n)
    THEN [a EXCEPT !.current_theme = RandomExcept(a.current_theme, seed),
                   !.last_theme_change = n]
    ELSE a

\* AnimationEngine::rotate_theme
RotateThemeOf(a, n, seed) ==
    [a EXCEPT !.current_theme = RandomExcept(a.current_theme, seed),
              !.last_theme_change = n]

\* AnimationEngine::set_theme
SetThemeOf(a, n, theme) ==
    [a EXCEPT !.current_theme = theme, !.last_theme_change = n]

\* tick that advances one frame for every frame duration that has elapsed
AnimTickOf_CatchesUp(a, st, auto_rotate, n, seed) ==
    LET frame_duration == FrameDurationMs(a.fps)
        framed == IF n - a.last_frame_time >= frame_duration
                  THEN [a EXCEPT !.frame_index =
                                     @ + ((n - a.last_frame_time) \div frame_duration),
                                 !.last_frame_time = n,
                                 !.fps = IF st.kind = "ShortBreak"
                                         THEN BREAK_FPS ELSE NORMAL_FPS]
                  ELSE a
    IN  IF auto_rotate /\ ShouldRotateTheme(framed, n)
        THEN RotateThemeOf(framed, n, seed)
        ELSE framed

\* AnimationEngine::tick; frame_index.wrapping_add(1) wraps at usize::MAX only
AnimTickOf(a, st, auto_rotate, n, seed) ==
    LET frame_duration == FrameDurationMs(a.fps)
        framed == IF n - a.last_frame_time >= frame_duration
                  THEN [a EXCEPT !.frame_index = @ + 1,
                                 !.last_frame_time = n,
                                 !.fps = IF st.kind = "ShortBreak"
                                         THEN BREAK_FPS ELSE NORMAL_FPS]
                  ELSE a
    IN  IF auto_rotate /\ ShouldRotateTheme(framed, n)
        THEN RotateThemeOf(framed, n, seed)
        ELSE framed

\* ----------------------------------------------------------------- history
\* What an observer of the timer records about the run.  `op` is the
\* operation just performed on the timer t (giving t2) at clock reading n.
\*   began       clock reading at which the running phase was entered
\*   clean       since `began` the phase has only been ticked (never paused)
\*   endedClean  the last step was the tick that ended a clean phase which
\*               earlier ticks had already charged time to
\*   frozen      remaining at the moment of the last pause
\*   pauseSeen   what that pause has seen: 0 nothing yet, 1 the clock moved,
\*               2 a tick arrived after the clock had moved
\*   resumedAt   clock reading of the last resume
\*   fresh       nothing but time has happened to the timer since that resume
\*   afterResume the last step was the first tick after that resume, later
\*               than the resume, and the pause had seen a tick (pauseSeen = 2)
\*   worksDone   Work phases completed since start() or the last LongBreak
\*   event       what the last step was, when it was one of: "start" (start()
\*               on a timer that was not Idle), "resetPaused" and "skipPaused"
\*               (reset_current_session() / advance_state() on a paused
\*               timer); "" otherwise
InitHist ==
    [began |-> 0, clean |-> FALSE, endedClean |-> FALSE,
     frozen |-> 0, pauseSeen |-> 0, resumedAt |-> 0,
     fresh |-> FALSE, afterResume |-> FALSE, worksDone |-> 0, event |-> "",
     overshoot |-> FALSE]

Observe(h, op, t, t2, n) ==
    LET from == InnerState(t.state).kind
        to == InnerState(t2.state).kind
        entered == \/ op \in {"start", "reset", "advance"} /\ IsRunning(t2.state)
                   \/ op = "tick" /\ t2.state # t.state
        pausing == ~IsPaused(t.state) /\ IsPaused(t2.state)
        resuming == op = "toggle_pause" /\ IsPaused(t.state) /\ ~IsPaused(t2.state)
        stillPaused == IsPaused(t.state) /\ IsPaused(t2.state)
        keepsClean == h.clean /\ op = "tick" /\ IsRunning(t2.state)
        firstTick == h.fresh /\ op = "tick"
        pauseKept == stillPaused \/ resuming
    IN  [began |-> IF entered THEN n ELSE IF keepsClean THEN h.began ELSE 0,
         clean |-> entered \/ keepsClean,
         endedClean |-> /\ op = "tick" /\ t2.state # t.state /\ h.clean
                        /\ t.remaining < TotalDuration(t.state),
         frozen |-> IF pausing THEN t.remaining
                    ELSE IF pauseKept THEN h.frozen ELSE 0,
         pauseSeen |-> IF stillPaused /\ op = "tick" /\ h.pauseSeen = 1 THEN 2
                       ELSE IF pauseKept THEN h.pauseSeen ELSE 0,
         resumedAt |-> IF resuming THEN n ELSE 0,
         fresh |-> resuming,
         afterResume |-> firstTick /\ h.pauseSeen = 2 /\ n > h.resumedAt,
         worksDone |-> IF op \in {"start", "new"} \/ from = "Idle" \/ to = "Idle" THEN 0
                       ELSE IF from = "Work" /\ to \in {"ShortBreak", "LongBreak"}
                            THEN h.worksDone + 1
                       ELSE IF from = "LongBreak" /\ to # "LongBreak" THEN 0
                       ELSE h.worksDone,
         event |-> IF op = "start" /\ t.state # Idle THEN "start"
                   ELSE IF op = "reset" /\ IsPaused(t.state) THEN "resetPaused"
                   ELSE IF op = "advance" /\ IsPaused(t.state) THEN "skipPaused"
                   ELSE "",
         overshoot |-> /\ op = "tick" /\ t2.state # t.state /\ t.last_tick # None
                       /\ n - t.last_tick[1] - t.remaining >= TotalDuration(t2.state)]

\* the observer's record when the clock moves and the timer is not operated
ObserveClock(h, s) ==
    [h EXCEPT !.endedClean = FALSE, !.afterResume = FALSE, !.event = "",
              !.overshoot = FALSE,
              !.pauseSeen = IF IsPaused(s) /\ @ = 0 THEN 1 ELSE @]

\* What an observer of the animation engine records: `event` names what the
\* last step was when it was one of
\*   "longGapFrame"  a tick that came at least 150 s after the last frame
\*   "rotated"       a tick that rotated the theme
\*   "rotateProbed"  a rotate_theme() whose seed fell on the active theme
\* and `theme_set` is the clock reading at which the theme was last set (at
\* construction, by rotate_theme() or by set_theme()).
InitAnimHist == [event |-> "", theme_set |-> 0]

\* -------------------------------------------------------------- the scaling
\* MIN_WIDTH, MIN_HEIGHT: below them the terminal is TooSmall
MIN_WIDTH == 40
MIN_HEIGHT == 15
\* the padding ScalingContext::new adds to the font height
TIMER_AREA_PADDING == 4

\* classification that puts a terminal exactly at a threshold in the smaller
\* category
FromDimensions_ThresholdBelow(width, height) ==
    IF width <= MIN_WIDTH \/ height <= MIN_HEIGHT THEN "TooSmall"
    ELSE IF width <= 60 \/ height <= 20 THEN "Compact"
    ELSE IF width <= 100 \/ height <= 30 THEN "Medium"
    ELSE IF width <= 150 \/ height <= 45 THEN "Large"
    ELSE "ExtraLarge"

\* TerminalSize::from_dimensions
FromDimensions(width, height) ==
    IF width < MIN_WIDTH \/ height < MIN_HEIGHT THEN "TooSmall"
    ELSE IF width < 60 \/ height < 20 THEN "Compact"
    ELSE IF width < 100 \/ height < 30 THEN "Medium"
    ELSE IF width < 150 \/ height < 45 THEN "Large"
    ELSE "ExtraLarge"

\* fonts_by_size of select_font_for_size: font, digit width, digit height
FontsBySize ==
    << <<"Classic", 5, 5>>, <<"Terminal", 5, 7>>, <<"Hairline", 5, 7>>,
       <<"Organic", 6, 7>>, <<"ClaudeFont", 6, 8>>, <<"Angular", 6, 8>>,
       <<"Bamboo", 6, 8>>, <<"SeasonalFont", 6, 8>>, <<"LCD", 6, 9>>,
       <<"Block3D", 7, 9>>, <<"Gothic", 7, 9>>, <<"Neon", 7, 9>>,
       <<"Fragmented", 7, 9>>, <<"Savanna", 9, 9>>, <<"Isometric", 8, 10>>,
       <<"Outlined", 7, 11>> >>

\* the place of a font in fonts_by_size
CatalogueIndex(font) == CHOOSE i \in 1..Len(FontsBySize) : FontsBySize[i][1] = font

\* DigitFont::height; the fonts digit_fonts.rs does not define have the digit
\* height fonts_by_size gives them
FontHeight(font) ==
    CASE font = "Classic" -> 5
      [] font = "Block3D" -> 9
      [] font = "Outlined" -> 11
      [] font = "Isometric" -> 10
      [] font = "LCD" -> 9
      [] OTHER -> FontsBySize[CatalogueIndex(font)][3]

\* DigitFont::width, likewise
FontWidth(font) ==
    CASE font = "Classic" -> 5
      [] font = "Block3D" -> 7
      [] font = "Outlined" -> 7
      [] font = "Isometric" -> 8
      [] font = "LCD" -> 6
      [] OTHER -> FontsBySize[CatalogueIndex(font)][2]

\* DigitFont::colon_width; for the fonts digit_fonts.rs does not define, the
\* colon width the comments of fonts_by_size count with
ColonWidth(font) ==
    CASE font \in {"Classic", "LCD", "Terminal", "Hairline"} -> 2
      [] OTHER -> 3

\* render_time_with_font: the columns the rendered MM:SS takes
RenderedTimerWidth(font) == FontWidth(font) * 4 + ColonWidth(font) + 4

\* ScalingContext::new
ScalingContextNew(width, height) ==
    LET size_category == FromDimensions(width, height)
        policy ==
            CASE size_category = "TooSmall" -> <<"Classic", 0, FALSE, FALSE, FALSE>>
              [] size_category = "Compact" -> <<"Classic", 1, TRUE, FALSE, FALSE>>
              [] size_category = "Medium" -> <<"Terminal", 2, TRUE, TRUE, TRUE>>
              [] size_category = "Large" -> <<"Block3D", 3, TRUE, TRUE, TRUE>>
              [] size_category = "ExtraLarge" -> <<"Outlined", 3, TRUE, TRUE, TRUE>>
    IN  [width |-> width, height |-> height, size_category |-> size_category,
         recommended_font |-> policy[1],
         timer_area_height |-> FontHeight(policy[1]) + TIMER_AREA_PADDING,
         show_progress_bar |-> policy[3], show_hints |-> policy[4],
         show_session_info |-> policy[5], background_detail_level |-> policy[2]]

\* the loop of select_font_for_size over fonts_by_size.iter().rev(), from
\* entry i downwards: the first font whose 4 digits and colon fit
RECURSIVE ScanFonts(_, _, _)
ScanFonts(i, available_width, available_height) ==
    IF i = 0 THEN "Classic"
    ELSE IF FontsBySize[i][2] * 4 + 3 <= available_width
            /\ FontsBySize[i][3] <= available_height
         THEN FontsBySize[i][1]
         ELSE ScanFonts(i - 1, available_width, available_height)

\* (width as f32 * 0.6) as u16 and (height as f32 * 0.4) as u16: for every u16
\* the f32 product truncates to the integer quotient
AvailableWidth(width) == (width * 6) \div 10
AvailableHeight(height) == (height * 4) \div 10

\* select_font_for_size
SelectFontForSize(width, height) ==
    ScanFonts(Len(FontsBySize), AvailableWidth(width), AvailableHeight(height))

\* ------------------------------------------------------------------ the app
\* the frames the "hints hidden" flash lasts (App::toggle_hints)
HINT_FLASH_FRAMES == 20
\* the largest u8 (cycle_position)
U8Max == 255

\* App::new in a terminal of the given size, the fields beside timer and
\* animation (should_quit is never set)
NewAppAt(width, height) ==
    [screen |-> "Menu", menu_selection |-> "Start",
     theme_selector_open |-> FALSE, theme_selector_index |-> 0,
     auto_rotate |-> TRUE, hints_visible |-> TRUE, hint_flash_frames |-> 0,
     scaling |-> ScalingContextNew(width, height), adaptive_font |-> TRUE]

\* App::new when the terminal does not report its size: unwrap_or((80, 24))
NewApp == NewAppAt(80, 24)

\* update_dimensions that patches the stored size into the context
UpdateDimensionsOf_PatchesSize(ap, width, height) ==
    [ap EXCEPT !.scaling.width = width, !.scaling.height = height]

\* App::update_dimensions, the new context
UpdateDimensionsOf(ap, width, height) ==
    [ap EXCEPT !.scaling = ScalingContextNew(width, height)]

\* App::update_dimensions and App::toggle_adaptive_font, the font of the engine
\* once the app fields are ap: the recommended font in adaptive mode
AdaptFontOf(ap, a) ==
    IF ap.adaptive_font THEN [a EXCEPT !.current_font = ap.scaling.recommended_font]
    ELSE a

\* run_app's position: pc is the next statement of the loop body ("draw",
\* "poll", "tick", or "done" after the return), drawn the fields the last
\* terminal.draw rendered, events and ticks the input events handled and the
\* App::tick calls made since that draw.  pc "off": the loop is not running,
\* the handlers are called by a harness.
NoLoop == [pc |-> "off", drawn |-> None, events |-> 0, ticks |-> 0]

\* a loop that keeps reading events until none is pending before it ticks
LoopAfter_DrainsEvents(l) ==
    CASE l.pc = "poll" -> [l EXCEPT !.events = 1]
      [] l.pc = "tick" -> [l EXCEPT !.pc = "draw", !.ticks = @ + 1]
      [] OTHER -> l

\* run_app after a handler returned: the event's handler is followed by
\* app.tick(), app.tick() by the next iteration's terminal.draw
LoopAfter(l) ==
    CASE l.pc = "poll" -> [l EXCEPT !.pc = "tick", !.events = @ + 1]
      [] l.pc = "tick" -> [l EXCEPT !.pc = "draw", !.ticks = @ + 1]
      [] OTHER -> l

\* themes[index] with the slice's bounds check
IndexTheme(index) ==
    IF index \in 0..(Len(ThemeAll) - 1) THEN ThemeAll[index + 1] ELSE "Panic"

\* themes.iter().position(|&t| t == theme).unwrap_or(0)
ThemePosition(theme) ==
    IF \E i \in 1..Len(ThemeAll) : ThemeAll[i] = theme
    THEN (CHOOSE i \in 1..Len(ThemeAll) : ThemeAll[i] = theme) - 1
    ELSE 0

\* App::toggle_theme_selector
ToggleThemeSelectorOf(ap, theme) ==
    IF ~ap.theme_selector_open
    THEN [ap EXCEPT !.theme_selector_open = TRUE,
                    !.theme_selector_index = ThemePosition(theme)]
    ELSE [ap EXCEPT !.theme_selector_open = FALSE]

SelectorUpIndex_NoWrap(index) == index - 1

\* App::theme_selector_up, the index arithmetic
SelectorUpIndex(index) ==
    IF index > 0 THEN index - 1 ELSE Len(ThemeAll) - 1

\* App::theme_selector_down, the index arithmetic
SelectorDownIndex(index) == (index + 1) % Len(ThemeAll)

\* App::toggle_hints
ToggleHintsOf(ap) ==
    IF ap.hints_visible
    THEN [ap EXCEPT !.hints_visible = FALSE, !.hint_flash_frames = HINT_FLASH_FRAMES]
    ELSE [ap EXCEPT !.hints_visible = TRUE]

\* App::tick, the countdown of the hint flash
HintFlashAfterTick(frames) == IF frames > 0 THEN frames - 1 ELSE frames

\* ------------------------------------------------------------------- steps
Init ==
    /\ now = 0
    /\ state = NewTimer.state
    /\ remaining = NewTimer.remaining
    /\ cycle_position = NewTimer.cycle_position
    /\ last_tick = NewTimer.last_tick
    /\ notified = ""
    /\ hist = InitHist
    /\ now_ms = 0
    /\ frame_index = NewAnimation(0, 0).frame_index
    /\ current_theme = NewAnimation(0, 0).current_theme
    /\ current_font = NewAnimation(0, 0).current_font
    /\ last_frame_time = NewAnimation(0, 0).last_frame_time
    /\ last_theme_change = NewAnimation(0, 0).last_theme_change
    /\ fps = NewAnimation(0, 0).fps
    /\ anim_hist = InitAnimHist
    /\ app = NewApp
    /\ ops = 0
    /\ loop = NoLoop
    /\ selected = None
    /\ picker_hist = None
    /\ tray = NoTray
    /\ status_file = NoFile

\* the timer becomes t2 by operation op, performed at the present instant
Becomes(op, t2) ==
    /\ state' = t2.state
    /\ remaining' = t2.remaining
    /\ cycle_position' = t2.cycle_position
    /\ last_tick' = t2.last_tick
    /\ hist' = Observe(hist, op, Timer, t2, now)
    /\ now' = now
    /\ UNCHANGED <<animVars, appVars, trayVars>>

\* time passes between two handlers
ClockAdvance ==
    /\ now < MaxTime
    /\ now' = now + 1
    /\ hist' = ObserveClock(hist, state)
    /\ UNCHANGED <<state, remaining, cycle_position, last_tick, notified>>
    /\ UNCHANGED <<animVars, appVars, trayVars>>

Start ==
    /\ Becomes("start", StartOf(Timer, now))
    /\ notified' = ""

TogglePause ==
    /\ Becomes("toggle_pause", TogglePauseOf(Timer, now))
    /\ notified' = ""

ResetCurrentSession ==
    /\ Becomes("reset", ResetCurrentSessionOf(Timer, now))
    /\ notified' = ""

AdvanceState ==
    /\ Becomes("advance", AdvanceStateOf(Timer, now))
    /\ notified' = ""

\* App::tick on the Timer screen: the timer ticks, and a session end is notified
Tick ==
    LET t2 == TickOf(Timer, now) IN
    /\ Becomes("tick", t2)
    /\ notified' = NotificationOf(state, t2.state)

\* App::quit_to_menu: the timer is replaced by a new one
QuitToMenu ==
    /\ Becomes("new", NewTimer)
    /\ notified' = ""

Next ==
    \/ ClockAdvance
    \/ Start
    \/ TogglePause
    \/ ResetCurrentSession
    \/ AdvanceState
    \/ Tick
    \/ QuitToMenu

Spec == Init /\ [][Next]_vars

\* ------------------------------------------- the animation engine on its own
\* the readings at which the animation clock is observed
AnimTimes ==
    {ClockGrainMs * i : i \in 0..FineSteps}
        \cup {THEME_ROTATION_SECS * 1000 + ClockGrainMs * (i - 1) : i \in 0..FineSteps}

\* the seeds a theme selection is run with: the first indices of the theme
\* list, its last index (from where the probe wraps around) and its length
\* (where the modulus wraps around)
Seeds == (0..MaxSeed) \cup {Len(ThemeAll) - 1, Len(ThemeAll)}

\* every residue of a seed modulo the number of themes, and one wrapped seed
AnySeed == 0..Len(ThemeAll)

\* the themes set_theme is called with
PickedThemes == {ThemeAt(seed % Len(ThemeAll)) : seed \in Seeds}

\* the session states a caller can hand to AnimationEngine::tick
TickStates ==
    {Idle, Work(1), ShortBreak(1), LongBreak, Paused(Work(1)), Paused(ShortBreak(1))}

\* the engine becomes a2, the observer noting event e
AnimBecomes(a2, e, set_at) ==
    /\ frame_index' = a2.frame_index
    /\ current_theme' = a2.current_theme
    /\ current_font' = a2.current_font
    /\ last_frame_time' = a2.last_frame_time
    /\ last_theme_change' = a2.last_theme_change
    /\ fps' = a2.fps
    /\ anim_hist' = [event |-> e, theme_set |-> set_at]
    /\ now_ms' = now_ms
    /\ UNCHANGED <<timerVars, appVars, trayVars>>

\* App::new: the engine is constructed with a clock-seeded theme
InitAnim ==
    /\ now = 0
    /\ state = NewTimer.state
    /\ remaining = NewTimer.remaining
    /\ cycle_position = NewTimer.cycle_position
    /\ last_tick = NewTimer.last_tick
    /\ notified = ""
    /\ hist = InitHist
    /\ now_ms = 0
    /\ \E seed \in Seeds :
          /\ frame_index = NewAnimation(0, seed).frame_index
          /\ current_theme = NewAnimation(0, seed).current_theme
          /\ current_font = NewAnimation(0, seed).current_font
          /\ last_frame_time = NewAnimation(0, seed).last_frame_time
          /\ last_theme_change = NewAnimation(0, seed).last_theme_change
          /\ fps = NewAnimation(0, seed).fps
    /\ anim_hist = InitAnimHist
    /\ app = NewApp
    /\ ops = 0
    /\ loop = NoLoop
    /\ selected = None
    /\ picker_hist = None
    /\ tray = NoTray
    /\ status_file = NoFile

\* time passes between two handlers: the clock moves on to a later reading
AnimClockAdvance ==
    /\ \E t \in AnimTimes : t > now_ms /\ now_ms' = t
    /\ anim_hist' = [anim_hist EXCEPT !.event = ""]
    /\ UNCHANGED <<frame_index, current_theme, current_font, last_frame_time,
                   last_theme_change, fps>>
    /\ UNCHANGED <<timerVars, appVars, trayVars>>

\* AnimationEngine::tick(st, auto_rotate) with clock-derived seed `seed`
AnimTickWith(st, auto_rotate, seed) ==
    LET a2 == AnimTickOf(Animation, st, auto_rotate, now_ms, seed) IN
    AnimBecomes(a2,
        IF a2.current_theme # current_theme THEN "rotated"
        ELSE IF a2.frame_index # frame_index
                /\ now_ms - last_frame_time >= THEME_ROTATION_SECS * 1000
             THEN "longGapFrame"
        ELSE "",
        IF a2.current_theme # current_theme THEN now_ms ELSE anim_hist.theme_set)

\* a tick with any session state and either setting of auto_rotate; the seed is
\* only read when the theme is rotated
SeedsRead(auto_rotate) ==
    IF auto_rotate /\ ShouldRotateTheme(Animation, now_ms) THEN Seeds ELSE {0}

AnimTick ==
    \E st \in TickStates, auto_rotate \in BOOLEAN :
    \E seed \in SeedsRead(auto_rotate) :
        AnimTickWith(st, auto_rotate, seed)

\* AnimationEngine::rotate_theme
AnimRotateTheme ==
    \E seed \in Seeds :
        AnimBecomes(RotateThemeOf(Animation, now_ms, seed),
            IF RandomTheme(seed) = current_theme THEN "rotateProbed" ELSE "",
            now_ms)

\* AnimationEngine::set_theme(theme)
AnimSetTheme ==
    \E theme \in PickedThemes :
        AnimBecomes(SetThemeOf(Animation, now_ms, theme), "", now_ms)

\* AnimationEngine::reset
AnimReset ==
    AnimBecomes(AnimResetOf(Animation, now_ms),
                IF frame_index > 0 THEN "resetFrames" ELSE "",
                anim_hist.theme_set)

\* AnimationEngine::next_font
AnimNextFont ==
    AnimBecomes(NextFontOf(Animation), "", anim_hist.theme_set)

NextAnim ==
    \/ AnimClockAdvance
    \/ AnimTick
    \/ AnimRotateTheme
    \/ AnimSetTheme
    \/ AnimReset
    \/ AnimNextFont

SpecAnim == InitAnim /\ [][NextAnim]_vars

\* ------------------------------------------------------ the app and its keys
\* The handlers of App as the main loop calls them on key presses and once per
\* iteration (App::tick), together with direct calls of the timer's methods.
\* The clock is read in minutes; the animation engine reads the same clock in
\* ms.  The font keys and terminal resizes are left out: they touch only
\* current_font, adaptive_font and scaling, which no handler here reads.

\* the key presses of one run that count: the keys of the menu, of the picker
\* and of the toggles (q, t, a, h).  Ticks, the timer's own keys (Space, r,
\* Tab) and direct calls of the timer's methods are not limited.
MaxOps == 3

MsPerMinute == 60000

\* the readings of the clock: the start, the end of a work session and the end
\* of the short break after it
AppTimes == {0, WORK_DURATION, WORK_DURATION + SHORT_BREAK_DURATION}

\* what is remembered once the app fields are app2: the theme the picker
\* was opened on, for as long as it stays open
PickerHistAfter(app2) ==
    IF ~app2.theme_selector_open THEN None
    ELSE IF ~app.theme_selector_open THEN Some(current_theme)
    ELSE picker_hist

\* timer, engine and app fields become t2, a2 and app2; `cost` is 1 for a
\* key press that counts towards MaxOps
AppBecomes(t2, a2, app2, note, cost) ==
    /\ ops + cost <= MaxOps
    /\ ops' = ops + cost
    /\ state' = t2.state
    /\ remaining' = t2.remaining
    /\ cycle_position' = t2.cycle_position
    /\ last_tick' = t2.last_tick
    /\ notified' = note
    /\ frame_index' = a2.frame_index
    /\ current_theme' = a2.current_theme
    /\ current_font' = a2.current_font
    /\ last_frame_time' = a2.last_frame_time
    /\ last_theme_change' = a2.last_theme_change
    /\ fps' = a2.fps
    /\ app' = app2
    /\ loop' = LoopAfter(loop)
    /\ picker_hist' = PickerHistAfter(app2)
    /\ UNCHANGED <<now, now_ms, hist, anim_hist, selected, trayVars>>

\* App::new
InitApp == InitAnim

\* time passes between two handlers
AppClockAdvance ==
    /\ \E t \in AppTimes : t > now /\ now' = t /\ now_ms' = t * MsPerMinute
    /\ UNCHANGED <<state, remaining, cycle_position, last_tick, notified, hist,
                   frame_index, current_theme, current_font, last_frame_time,
                   last_theme_change, fps, anim_hist, app, ops, loop, selected,
                   picker_hist, trayVars>>

\* Menu screen, Up or k: App::menu_up
KeyMenuUp ==
    /\ app.screen = "Menu"
    /\ AppBecomes(Timer, Animation, [app EXCEPT !.menu_selection = "Start"], "", 1)

\* Menu screen, Down or j: App::menu_down
KeyMenuDown ==
    /\ app.screen = "Menu"
    /\ AppBecomes(Timer, Animation, [app EXCEPT !.menu_selection = "Quit"], "", 1)

\* menu_select that shows the Timer screen without starting the timer
KeyMenuSelect_NoStart ==
    /\ app.screen = "Menu"
    /\ app.menu_selection = "Start"
    /\ AppBecomes(Timer, AnimResetOf(Animation, now_ms),
                  [app EXCEPT !.screen = "Timer"], "", 1)

\* Menu screen, Enter on Start: App::menu_select (on Quit the loop returns)
KeyMenuSelect ==
    /\ app.screen = "Menu"
    /\ app.menu_selection = "Start"
    /\ AppBecomes(StartOf(Timer, now), AnimResetOf(Animation, now_ms),
                  [app EXCEPT !.screen = "Timer"], "", 1)

\* the keys of the Timer screen are read by the picker while it is open
TimerKeys == app.screen = "Timer" /\ ~app.theme_selector_open
PickerKeys == app.screen = "Timer" /\ app.theme_selector_open

\* Space: App::toggle_pause
KeyTogglePause ==
    /\ TimerKeys
    /\ AppBecomes(TogglePauseOf(Timer, now), Animation, app, "", 0)

\* r: App::reset_session
KeyResetSession ==
    /\ TimerKeys
    /\ AppBecomes(ResetCurrentSessionOf(Timer, now), AnimResetOf(Animation, now_ms),
                  app, "", 0)

\* quit_to_menu that keeps the place in the cycle
KeyQuitToMenu_KeepsCycle ==
    /\ TimerKeys
    /\ AppBecomes([NewTimer EXCEPT !.cycle_position = cycle_position],
                  AnimResetOf(Animation, now_ms),
                  [app EXCEPT !.screen = "Menu"], "", 1)

\* q: App::quit_to_menu
KeyQuitToMenu ==
    /\ TimerKeys
    /\ AppBecomes(NewTimer, AnimResetOf(Animation, now_ms),
                  [app EXCEPT !.screen = "Menu"], "", 1)

\* Tab: App::skip_to_next
KeySkipToNext ==
    /\ TimerKeys
    /\ \E seed \in Seeds :
          AppBecomes(AdvanceStateOf(Timer, now), RotateThemeOf(Animation, now_ms, seed),
                     app, "", 0)

\* t or T: App::toggle_theme_selector
KeyToggleThemeSelector ==
    /\ TimerKeys
    /\ AppBecomes(Timer, Animation, ToggleThemeSelectorOf(app, current_theme), "", 1)

\* a: App::toggle_auto_rotate
KeyToggleAutoRotate ==
    /\ TimerKeys
    /\ AppBecomes(Timer, Animation, [app EXCEPT !.auto_rotate = ~@], "", 1)

\* h: App::toggle_hints
KeyToggleHints ==
    /\ TimerKeys
    /\ AppBecomes(Timer, Animation, ToggleHintsOf(app), "", 1)

\* picker, Up or k: App::theme_selector_up
KeySelectorUp ==
    /\ PickerKeys
    /\ LET index == SelectorUpIndex(app.theme_selector_index) IN
       AppBecomes(Timer, SetThemeOf(Animation, now_ms, IndexTheme(index)),
                  [app EXCEPT !.theme_selector_index = index], "", 1)

\* picker, Down or j: App::theme_selector_down
KeySelectorDown ==
    /\ PickerKeys
    /\ LET index == SelectorDownIndex(app.theme_selector_index) IN
       AppBecomes(Timer, SetThemeOf(Animation, now_ms, IndexTheme(index)),
                  [app EXCEPT !.theme_selector_index = index], "", 1)

\* picker, Enter: App::theme_selector_confirm
KeySelectorConfirm ==
    /\ PickerKeys
    /\ AppBecomes(Timer,
                  SetThemeOf(Animation, now_ms, IndexTheme(app.theme_selector_index)),
                  [app EXCEPT !.theme_selector_open = FALSE], "", 1)

\* picker, Esc or T: App::theme_selector_cancel
KeySelectorCancel ==
    /\ PickerKeys
    /\ AppBecomes(Timer, Animation, [app EXCEPT !.theme_selector_open = FALSE], "", 1)

\* App::tick, once per iteration of the main loop
AppTick ==
    \E seed \in SeedsRead(app.auto_rotate) :
        LET a2 == AnimTickOf(Animation, state, app.auto_rotate, now_ms, seed)
            t2 == IF app.screen = "Timer" THEN TickOf(Timer, now) ELSE Timer
        IN  AppBecomes(t2, a2,
                       [app EXCEPT !.hint_flash_frames = HintFlashAfterTick(@)],
                       IF app.screen = "Timer" THEN NotificationOf(state, t2.state)
                       ELSE "",
                       0)

\* the methods of PomodoroTimer called directly
CallStart == AppBecomes(StartOf(Timer, now), Animation, app, "", 0)
CallTogglePause == AppBecomes(TogglePauseOf(Timer, now), Animation, app, "", 0)
CallResetCurrentSession ==
    AppBecomes(ResetCurrentSessionOf(Timer, now), Animation, app, "", 0)
CallAdvanceState == AppBecomes(AdvanceStateOf(Timer, now), Animation, app, "", 0)
CallTick == AppBecomes(TickOf(Timer, now), Animation, app, "", 0)

NextApp ==
    \/ AppClockAdvance
    \/ KeyMenuUp
    \/ KeyMenuDown
    \/ KeyMenuSelect
    \/ KeyTogglePause
    \/ KeyResetSession
    \/ KeyQuitToMenu
    \/ KeySkipToNext
    \/ KeyToggleThemeSelector
    \/ KeyToggleAutoRotate
    \/ KeyToggleHints
    \/ KeySelectorUp
    \/ KeySelectorDown
    \/ KeySelectorConfirm
    \/ KeySelectorCancel
    \/ AppTick
    \/ CallStart
    \/ CallTogglePause
    \/ CallResetCurrentSession
    \/ CallAdvanceState
    \/ CallTick

SpecApp == InitApp /\ [][NextApp]_vars

\* ------------------------------------------------- the session and its theme
\* The handlers that act on the session and on the theme: the app harness
\* without the hints key, the menu's cursor keys and the direct calls of the
\* timer's methods.
NextSession ==
    \/ AppClockAdvance
    \/ KeyMenuSelect
    \/ KeyTogglePause
    \/ KeyResetSession
    \/ KeyQuitToMenu
    \/ KeySkipToNext
    \/ KeyToggleThemeSelector
    \/ KeyToggleAutoRotate
    \/ KeySelectorUp
    \/ KeySelectorDown
    \/ KeySelectorConfirm
    \/ KeySelectorCancel
    \/ AppTick

SpecSession == InitApp /\ [][NextSession]_vars

\* ------------------------------------------- the size policy on its own
\* ScalingContext::new and select_font_for_size applied to every terminal
\* size up to MaxWidth x MaxHeight: the app starts in a terminal of any such
\* size, the terminal is resized by one column or one row at a time, and
\* select_font_for_size is called with the size the context stores.
MaxWidth == 200
MaxHeight == 50

\* the app fields become app2 and the engine's font that of a2
SizeBecomes(app2, a2, sel) ==
    /\ app' = app2
    /\ current_font' = a2.current_font
    /\ selected' = sel
    /\ UNCHANGED <<timerVars, now_ms, frame_index, current_theme, last_frame_time,
                   last_theme_change, fps, anim_hist, ops, loop, picker_hist,
                   trayVars>>

\* App::new in a terminal of any size
InitSize ==
    /\ now = 0
    /\ state = NewTimer.state
    /\ remaining = NewTimer.remaining
    /\ cycle_position = NewTimer.cycle_position
    /\ last_tick = NewTimer.last_tick
    /\ notified = ""
    /\ hist = InitHist
    /\ now_ms = 0
    /\ frame_index = NewAnimation(0, 0).frame_index
    /\ current_theme = NewAnimation(0, 0).current_theme
    /\ current_font = NewAnimation(0, 0).current_font
    /\ last_frame_time = NewAnimation(0, 0).last_frame_time
    /\ last_theme_change = NewAnimation(0, 0).last_theme_change
    /\ fps = NewAnimation(0, 0).fps
    /\ anim_hist = InitAnimHist
    /\ \E width \in 0..MaxWidth, height \in 0..MaxHeight :
          app = NewAppAt(width, height)
    /\ ops = 0
    /\ loop = NoLoop
    /\ selected = None
    /\ picker_hist = None
    /\ tray = NoTray
    /\ status_file = NoFile

\* Event::Resize by one column or one row: App::update_dimensions
SizeResize ==
    \E d \in {<<-1, 0>>, <<1, 0>>, <<0, -1>>, <<0, 1>>} :
        LET width == app.scaling.width + d[1]
            height == app.scaling.height + d[2]
            app2 == UpdateDimensionsOf(app, width, height)
        IN  /\ width \in 0..MaxWidth
            /\ height \in 0..MaxHeight
            /\ SizeBecomes(app2, AdaptFontOf(app2, Animation), None)

\* a call of select_font_for_size with the stored size
SizeSelectFont ==
    SizeBecomes(app, Animation,
                Some(SelectFontForSize(app.scaling.width, app.scaling.height)))

NextSize ==
    \/ SizeResize
    \/ SizeSelectFont

SpecSize == InitSize /\ [][NextSize]_vars

\* ------------------------------------------------- resizes and font keys
\* The session's handlers together with Event::Resize and the two font keys.

\* Event::Resize(width, height): App::update_dimensions; the terminal is
\* resized to one size of each category TooSmall, Compact, Medium, Large
ScaleResize ==
    \E s \in { <<30, 10>>, <<50, 18>>, <<80, 24>>, <<120, 40>> } :
        LET app2 == UpdateDimensionsOf(app, s[1], s[2])
        IN  AppBecomes(Timer, AdaptFontOf(app2, Animation), app2, "", 0)

\* an 'f' handler that cycles the font and stays in adaptive mode
KeyNextFont_StaysAdaptive ==
    /\ TimerKeys
    /\ AppBecomes(Timer, NextFontOf(Animation), app, "", 0)

\* f: adaptive_font = false; animation.next_font()
KeyNextFont ==
    /\ TimerKeys
    /\ AppBecomes(Timer, NextFontOf(Animation), [app EXCEPT !.adaptive_font = FALSE],
                  "", 0)

\* F: App::toggle_adaptive_font
KeyToggleAdaptiveFont ==
    /\ TimerKeys
    /\ LET app2 == [app EXCEPT !.adaptive_font = ~@]
       IN  AppBecomes(Timer, AdaptFontOf(app2, Animation), app2, "", 0)

NextScale ==
    \/ AppClockAdvance
    \/ KeyMenuSelect
    \/ KeyQuitToMenu
    \/ KeySkipToNext
    \/ KeyToggleAutoRotate
    \/ AppTick
    \/ ScaleResize
    \/ KeyNextFont
    \/ KeyToggleAdaptiveFont

SpecScale == InitApp /\ [][NextScale]_vars

\* ------------------------------------------------------------ the main loop
\* run_app: each iteration draws, polls for one event for at most tick_rate,
\* handles the event if there is one, calls App::tick and starts over.
\* what terminal.draw reads: the fields of the timer, the engine and the app
Rendered == <<Timer, Animation, app>>

\* run_app is entered with the app App::new built
InitLoop ==
    /\ now = 0
    /\ state = NewTimer.state
    /\ remaining = NewTimer.remaining
    /\ cycle_position = NewTimer.cycle_position
    /\ last_tick = NewTimer.last_tick
    /\ notified = ""
    /\ hist = InitHist
    /\ now_ms = 0
    /\ frame_index = NewAnimation(0, 0).frame_index
    /\ current_theme = NewAnimation(0, 0).current_theme
    /\ current_font = NewAnimation(0, 0).current_font
    /\ last_frame_time = NewAnimation(0, 0).last_frame_time
    /\ last_theme_change = NewAnimation(0, 0).last_theme_change
    /\ fps = NewAnimation(0, 0).fps
    /\ anim_hist = InitAnimHist
    /\ app = NewApp
    /\ ops = 0
    /\ loop = [NoLoop EXCEPT !.pc = "draw"]
    /\ selected = None
    /\ picker_hist = None
    /\ tray = NoTray
    /\ status_file = NoFile

\* the loop's position becomes l2 and nothing else changes
LoopBecomes(l2) ==
    /\ loop' = l2
    /\ UNCHANGED <<timerVars, animVars, app, ops, selected, picker_hist, trayVars>>

\* terminal.draw(|f| ui::draw(f, app))
LoopDraw ==
    /\ loop.pc = "draw"
    /\ LoopBecomes([pc |-> "poll", drawn |-> Some(Rendered), events |-> 0,
                    ticks |-> 0])

\* event::poll(tick_rate) times out, or reads an event that is ignored
LoopPollNothing ==
    /\ loop.pc = "poll"
    /\ LoopBecomes([loop EXCEPT !.pc = "tick"])

\* q on the menu: return Ok(())
LoopReturn ==
    /\ loop.pc = "poll"
    /\ app.screen = "Menu"
    /\ LoopBecomes([loop EXCEPT !.pc = "done"])

\* the events event::read() hands to a handler
LoopResize == loop.pc = "poll" /\ ScaleResize
LoopKeyMenuSelect == loop.pc = "poll" /\ KeyMenuSelect
LoopKeyTogglePause == loop.pc = "poll" /\ KeyTogglePause
LoopKeyQuitToMenu == loop.pc = "poll" /\ KeyQuitToMenu
LoopKeySkipToNext == loop.pc = "poll" /\ KeySkipToNext

\* app.tick()
LoopTick == loop.pc = "tick" /\ AppTick

NextLoop ==
    \/ AppClockAdvance
    \/ LoopDraw
    \/ LoopPollNothing
    \/ LoopReturn
    \/ LoopResize
    \/ LoopKeyMenuSelect
    \/ LoopKeyTogglePause
    \/ LoopKeyQuitToMenu
    \/ LoopKeySkipToNext
    \/ LoopTick

SpecLoop == InitLoop /\ [][NextLoop]_vars

\* ------------------------------------------------------------- the glyphs
\* The glyph tables of digit_fonts.rs and the glyphs render_time_with_font
\* fetches for a time.  A glyph is the sequence of its rows, a row is given by
\* the number of characters of its string.
MaxMinutes == 25
MaxSeconds == 59

\* a glyph of `rows` rows of `len` characters each
UniformGlyph(rows, len) == [i \in 1..rows |-> len]

\* ISOMETRIC_DIGITS: the rows of 1, 4 and 6 that end in a backslash run past
\* column 8
ISOMETRIC_DIGITS ==
    [d \in 0..9 |->
        CASE d = 1 -> << 8, 8, 8, 8, 8, 8, 9, 9, 8, 8 >>
          [] d = 4 -> << 8, 8, 9, 9, 9, 9, 10, 10, 8, 8 >>
          [] d = 6 -> << 8, 8, 8, 8, 8, 8, 9, 9, 8, 8 >>
          [] OTHER -> UniformGlyph(10, 8)]

\* DigitFont::get_digit: `digit.min(9)` indexes the font's table; every glyph
\* of CLASSIC_DIGITS is 5 rows of 5 characters, of BLOCK3D_DIGITS 9 rows of
\* 7, of OUTLINED_DIGITS 11 rows of 7, of LCD_DIGITS 9 rows of 6
GetDigit(font, digit) ==
    LET d == IF digit < 9 THEN digit ELSE 9
    IN  CASE font = "Classic" -> UniformGlyph(5, 5)
          [] font = "Block3D" -> UniformGlyph(9, 7)
          [] font = "Outlined" -> UniformGlyph(11, 7)
          [] font = "Isometric" -> ISOMETRIC_DIGITS[d]
          [] font = "LCD" -> UniformGlyph(9, 6)

\* DigitFont::get_colon: CLASSIC_COLON, BLOCK3D_COLON, OUTLINED_COLON,
\* ISOMETRIC_COLON, LCD_COLON
GetColon(font) ==
    CASE font = "Classic" -> UniformGlyph(5, 2)
      [] font = "Block3D" -> UniformGlyph(9, 3)
      [] font = "Outlined" -> UniformGlyph(11, 3)
      [] font = "Isometric" -> UniformGlyph(10, 3)
      [] font = "LCD" -> UniformGlyph(9, 2)

\* render_time_with_font: the glyphs drawn for minutes:seconds, left to right
RenderTimeWithFont(minutes, seconds, font) ==
    [font |-> font,
     glyphs |-> << GetDigit(font, minutes \div 10), GetDigit(font, minutes % 10),
                   GetColon(font),
                   GetDigit(font, seconds \div 10), GetDigit(font, seconds % 10) >>]

\* the timer is rendered in the engine's font
GlyphRenderTime ==
    /\ \E minutes \in 0..MaxMinutes, seconds \in 0..MaxSeconds :
          selected' = Some(RenderTimeWithFont(minutes, seconds, current_font))
    /\ UNCHANGED <<timerVars, animVars, app, ops, loop, picker_hist, trayVars>>

NextGlyph ==
    \/ AnimNextFont
    \/ GlyphRenderTime

SpecGlyph == InitAnim /\ [][NextGlyph]_vars

\* -------------------------------------------------------- the tray process
\* pomowise-tray polls the status file every 100 ms; the main process
\* overwrites the file without locking (ipc::write_status) and removes it on
\* exit (ipc::cleanup).  std::fs::write truncates the file and then writes,
\* so between the two a reader finds a prefix of the JSON document.

\* PomodoroTimer::session_name
SessionName(s) ==
    CASE s.kind = "Idle" -> "Idle"
      [] s.kind = "Work" -> "Work"
      [] s.kind = "ShortBreak" -> "Short Break"
      [] s.kind = "LongBreak" -> "Long Break"
      [] s.kind = "Paused" ->
            CASE s.inner.kind = "Work" -> "Work (Paused)"
              [] s.inner.kind = "ShortBreak" -> "Short Break (Paused)"
              [] s.inner.kind = "LongBreak" -> "Long Break (Paused)"
              [] OTHER -> "Paused"

\* PomodoroTimer::snapshot, the fields the tray reads
Snapshot(s, secs) ==
    [state |-> s, remaining_secs |-> secs, session_name |-> SessionName(s),
     is_paused |-> IsPaused(s)]

\* state_color
StateColor(snapshot) ==
    IF snapshot.is_paused THEN <<255, 165, 0>>
    ELSE CASE snapshot.state.kind = "Work" -> <<220, 50, 50>>
           [] snapshot.state.kind = "ShortBreak" -> <<50, 180, 50>>
           [] snapshot.state.kind = "LongBreak" -> <<50, 100, 220>>
           [] OTHER -> <<128, 128, 128>>

\* the number of rows of DIGIT_FONT: the digits and the colon
DigitFontRows == 11

\* create_icon_with_time: the background and the glyphs drawn; panic:
\* DIGIT_FONT[glyph] is indexed past the table
CreateIconWithTime(bg, mins, secs) ==
    LET glyphs == << mins \div 10, mins % 10, 10, secs \div 10, secs % 10 >>
    IN  [panic |-> \E g \in 1..Len(glyphs) : glyphs[g] >= DigitFontRows,
         bg |-> bg, glyphs |-> glyphs]

\* format_tooltip
FormatTooltip(snapshot) ==
    << snapshot.session_name, snapshot.remaining_secs \div 60,
       snapshot.remaining_secs % 60 >>

\* ipc::read_status: Err unless the file holds a whole document
ReadStatus(file) == IF file.kind = "whole" THEN Some(file.snapshot) ELSE None

\* a tray that leaves its loop when the status cannot be read
TrayAfterRead_ErrorEndsLoop(t, result) ==
    IF result # None
    THEN LET snapshot == result[1]
             icon == CreateIconWithTime(StateColor(snapshot),
                                        snapshot.remaining_secs \div 60,
                                        snapshot.remaining_secs % 60)
         IN  IF icon.panic THEN [t EXCEPT !.pc = "panic", !.last_read = "ok"]
             ELSE [t EXCEPT !.shown = [tooltip |-> FormatTooltip(snapshot),
                                       icon |-> icon],
                            !.last_read = "ok"]
    ELSE [t EXCEPT !.pc = "quit", !.last_read = "err"]

\* `if let Ok(snapshot) = ipc::read_status() { set_tooltip; set_icon }`
TrayAfterRead(t, result) ==
    IF result # None
    THEN LET snapshot == result[1]
             icon == CreateIconWithTime(StateColor(snapshot),
                                        snapshot.remaining_secs \div 60,
                                        snapshot.remaining_secs % 60)
         IN  IF icon.panic THEN [t EXCEPT !.pc = "panic", !.last_read = "ok"]
             ELSE [t EXCEPT !.shown = [tooltip |-> FormatTooltip(snapshot),
                                       icon |-> icon],
                            !.last_read = "ok"]
    ELSE [t EXCEPT !.last_read = "err"]

\* the tray as main builds it: tooltip "Pomowise - Idle", grey icon 00:00
InitTray ==
    /\ now = 0
    /\ state = NewTimer.state
    /\ remaining = NewTimer.remaining
    /\ cycle_position = NewTimer.cycle_position
    /\ last_tick = NewTimer.last_tick
    /\ notified = ""
    /\ hist = InitHist
    /\ now_ms = 0
    /\ frame_index = NewAnimation(0, 0).frame_index
    /\ current_theme = NewAnimation(0, 0).current_theme
    /\ current_font = NewAnimation(0, 0).current_font
    /\ last_frame_time = NewAnimation(0, 0).last_frame_time
    /\ last_theme_change = NewAnimation(0, 0).last_theme_change
    /\ fps = NewAnimation(0, 0).fps
    /\ anim_hist = InitAnimHist
    /\ app = NewApp
    /\ ops = 0
    /\ loop = NoLoop
    /\ selected = None
    /\ picker_hist = None
    /\ tray = [pc |-> "run",
               shown |-> [tooltip |-> <<"Idle">>,
                          icon |-> CreateIconWithTime(<<128, 128, 128>>, 0, 0)],
               last_read |-> ""]
    /\ status_file \in {NoFile, [kind |-> "whole", snapshot |-> Snapshot(Idle, 0)]}

\* the tray and the file become t2 and f2
TrayBecomes(t2, f2) ==
    /\ tray' = t2
    /\ status_file' = f2
    /\ UNCHANGED <<timerVars, animVars, appVars>>

\* std::fs::write opens the file with truncation and has not written all of
\* the document yet
WriterTruncate ==
    \E s \in {Idle, Work(1), ShortBreak(1), LongBreak, Paused(Work(1)),
              Paused(LongBreak)},
       secs \in {0, 59, 60 * WORK_DURATION} :
        TrayBecomes(tray, [kind |-> "partial", snapshot |-> Snapshot(s, secs)])

\* std::fs::write has written the whole document
WriterFinish ==
    /\ status_file.kind = "partial"
    /\ TrayBecomes(tray, [status_file EXCEPT !.kind = "whole"])

\* ipc::cleanup
WriterCleanup ==
    /\ status_file.kind # "missing"
    /\ TrayBecomes(tray, NoFile)

\* one pass of the tray's loop with no menu event, or with "Open Pomowise"
\* (open_tui spawns a terminal and returns)
TrayPoll ==
    /\ tray.pc = "run"
    /\ TrayBecomes(TrayAfterRead(tray, ReadStatus(status_file)), status_file)

\* the Quit menu item: break
TrayQuit ==
    /\ tray.pc = "run"
    /\ TrayBecomes([tray EXCEPT !.pc = "quit"], status_file)

NextTray ==
    \/ WriterTruncate
    \/ WriterFinish
    \/ WriterCleanup
    \/ TrayPoll
    \/ TrayQuit

SpecTray == InitTray /\ [][NextTray]_vars

\* ------------------------------------------------------------------ claims

\* C1: in a running phase that has only been ticked since it began, a tick
\* changes the phase exactly when the time elapsed since the phase began has
\* reached the phase's full duration (never on an earlier tick); the change is
\* one step to the following phase and leaves remaining at that phase's full
\* duration; a tick that does not change the phase leaves remaining at the
\* full duration minus the elapsed time.
C1_PhaseEndsAtFullDuration ==
    [][(Tick /\ hist.clean /\ IsRunning(state)) =>
         /\ (state' # state) <=> (now - hist.began >= TotalDuration(state))
         /\ state' # state =>
               /\ remaining' = TotalDuration(state')
               /\ IsRunning(state')
               /\ state'.kind # state.kind
               /\ (state.kind = "Work") = (state'.kind \in {"ShortBreak", "LongBreak"})
               /\ hist'.began = now
         /\ state' = state =>
               remaining' = TotalDuration(state) - (now - hist.began)]_vars

C1_Witness ==
    /\ hist.endedClean
    /\ state = Work(1)
    /\ notified = "Long break"
    /\ remaining = WORK_DURATION

\* C2: while paused, and after the resume until the timer is next operated,
\* remaining is what it was at the moment of the pause, whatever time passed
\* and however many ticks came in between; the first tick after the resume
\* charges exactly the time elapsed since the resume.
C2_PauseResumeKeepsRemaining ==
    /\ []((IsPaused(state) \/ hist.fresh) => remaining = hist.frozen)
    /\ [][(Tick /\ hist.fresh) =>
            IF now - hist.resumedAt >= hist.frozen
            THEN state'.kind # state.kind /\ remaining' = TotalDuration(state')
            ELSE state' = state /\ remaining' = hist.frozen - (now - hist.resumedAt)]_vars

C2_Witness ==
    /\ hist.afterResume
    /\ state = Work(1)
    /\ remaining = WORK_DURATION - 2

\* C3: whenever a Work phase is completed (by expiry or by skip), the break
\* that follows is ShortBreak{1} if it is the 1st, 2nd or 3rd Work phase
\* completed since start() or since the last LongBreak, and LongBreak if it
\* is the 4th.
C3_FourthWorkGivesLongBreak ==
    [][(InnerState(state).kind = "Work"
          /\ InnerState(state').kind \in {"ShortBreak", "LongBreak"}) =>
         /\ hist'.worksDone \in 1..4
         /\ hist'.worksDone < 4 => state' = ShortBreak(1)
         /\ hist'.worksDone = 4 => state' = LongBreak]_vars

C3_Witness ==
    /\ hist.worksDone = 4
    /\ state = LongBreak
    /\ notified = "Work session"

\* C4: advance_state() from Work{lap} with lap < WORK_LAPS gives Work{lap+1}
\* with the full work duration and the same cycle_position, and from
\* ShortBreak{lap} with lap < SHORT_BREAK_LAPS gives ShortBreak{lap+1}.
C4_AdvanceWithinLaps ==
    [][(AdvanceState /\ IsRunning(state)) =>
         /\ (state.kind = "Work" /\ state.lap < WORK_LAPS) =>
               /\ state' = Work(state.lap + 1)
               /\ remaining' = WORK_DURATION
               /\ cycle_position' = cycle_position
         /\ (state.kind = "ShortBreak" /\ state.lap < SHORT_BREAK_LAPS) =>
               state' = ShortBreak(state.lap + 1)]_vars

\* C5 as stated: cycle_position is within 0..3 in every reachable state.
C5_CyclePositionBelowFour == cycle_position \in 0..3

\* C5 as amended: cycle_position is within 0..4 in every reachable state; it
\* is the number of Work phases completed since start() or since the last
\* LongBreak ended, and it is 4 exactly while the phase is LongBreak (running
\* or paused).
C5_CyclePositionUpToFour ==
    /\ cycle_position \in 0..4
    /\ cycle_position = hist.worksDone
    /\ (cycle_position = 4) <=> (InnerState(state) = LongBreak)

C5_Witness ==
    /\ cycle_position = 4
    /\ state = Paused(LongBreak)
    /\ remaining < LONG_BREAK_DURATION

\* C6: last_tick is present exactly when the phase is running (neither Idle
\* nor Paused).
C6_LastTickIffRunning == (last_tick # None) <=> IsRunning(state)

C6_Witness ==
    /\ state = ShortBreak(1)
    /\ last_tick = Some(now)
    /\ hist.fresh
    /\ now > 0

\* C7: a Paused state wraps Work, ShortBreak or LongBreak: never Idle and
\* never another Paused.
C7_PausedWrapsRunningPhase ==
    IsPaused(state) => state.inner.kind \in {"Work", "ShortBreak", "LongBreak"}

C7_Witness ==
    /\ state = Paused(ShortBreak(1))
    /\ hist.pauseSeen = 2
    /\ cycle_position = 3

\* C8: remaining lies between 0 and the full duration of the current phase
\* (the underlying phase when paused, 0 for Idle).
C8_RemainingWithinPhase ==
    /\ remaining \in 0..TotalDuration(state)
    /\ state = Idle => remaining = 0

C8_Witness ==
    /\ state = LongBreak
    /\ remaining = 1
    /\ hist.clean

\* C9: toggle_pause() turns a running phase P into Paused{P} and clears
\* last_tick, turns Paused{base} into base and sets last_tick to now, and
\* changes nothing on Idle; remaining and cycle_position are never changed.
C9_TogglePause ==
    [][TogglePause =>
         /\ IsRunning(state) => state' = Paused(state) /\ last_tick' = None
         /\ IsPaused(state) => state' = state.inner /\ last_tick' = Some(now)
         /\ state = Idle => state' = Idle /\ last_tick' = last_tick
         /\ remaining' = remaining
         /\ cycle_position' = cycle_position]_vars

C9_Witness ==
    /\ state = Paused(Work(1))
    /\ last_tick = None
    /\ hist.pauseSeen = 0
    /\ remaining = 7
    /\ cycle_position = 2

\* C10: a tick on an Idle or Paused timer changes neither state, remaining,
\* cycle_position nor last_tick, is no failure, and notifies nothing.
C10_TickIdleOrPausedIsNoOp ==
    [][(Tick /\ state.kind \in {"Idle", "Paused"}) =>
         /\ UNCHANGED <<state, remaining, cycle_position, last_tick>>
         /\ state'.kind # "Panic"
         /\ notified' = ""]_vars

C10_Witness ==
    /\ state = Paused(LongBreak)
    /\ hist.pauseSeen = 2
    /\ notified = ""
    /\ remaining = LONG_BREAK_DURATION

\* C11: start(), from any state, leaves the timer at Work{lap 1} with the
\* full work duration, cycle_position 0 and last_tick set to now.
C11_Start ==
    [][Start =>
         /\ state' = Work(1)
         /\ remaining' = WORK_DURATION
         /\ cycle_position' = 0
         /\ last_tick' = Some(now)]_vars

C11_Witness ==
    /\ hist.event = "start"
    /\ state = Work(1)
    /\ cycle_position = 0
    /\ remaining = WORK_DURATION
    /\ now > 0

\* C12: leaving LongBreak, by expiry or by skip, sets cycle_position to 0 and
\* goes to Work{1} with the full work duration, and the count of completed
\* Work phases starts again from 0 (it is 4 throughout a LongBreak).
C12_LongBreakRestartsCycle ==
    /\ [](InnerState(state) = LongBreak => hist.worksDone = 4)
    /\ [][(InnerState(state) = LongBreak
             /\ (AdvanceState \/ (Tick /\ state' # state))) =>
            /\ cycle_position' = 0
            /\ state' = Work(1)
            /\ remaining' = WORK_DURATION
            /\ hist'.worksDone = 0]_vars

C12_Witness ==
    /\ notified = "Long break"
    /\ state = Work(1)
    /\ cycle_position = 0
    /\ last_tick = Some(now)

\* C13: reset_current_session() changes nothing on Idle; otherwise it leaves
\* the phase kind of the session (the wrapped one when paused) with lap 1 and
\* that kind's full duration, and cycle_position as it was.
C13_ResetCurrentSession ==
    [][ResetCurrentSession =>
         /\ state = Idle =>
               UNCHANGED <<state, remaining, cycle_position, last_tick>>
         /\ state # Idle =>
               /\ state'.kind = InnerState(state).kind
               /\ state'.kind \in {"Work", "ShortBreak"} => state'.lap = 1
               /\ remaining' = TotalDuration(state)
               /\ cycle_position' = cycle_position]_vars

C13_Witness ==
    /\ hist.event = "resetPaused"
    /\ state = ShortBreak(1)
    /\ remaining = SHORT_BREAK_DURATION
    /\ cycle_position = 2

\* C14: after advance_state() from any state, and after
\* reset_current_session() on a paused session, last_tick is set to now and
\* the phase is a running one (neither Idle nor Paused).
C14_AdvanceRearmsClock ==
    [][(AdvanceState \/ (ResetCurrentSession /\ IsPaused(state))) =>
         /\ last_tick' = Some(now)
         /\ IsRunning(state')
         /\ state'.kind \in {"Work", "ShortBreak", "LongBreak"}]_vars

C14_Witness ==
    /\ hist.event = "skipPaused"
    /\ state = LongBreak
    /\ last_tick = Some(now)
    /\ now > 0

\* C16: session_progress() is 1 - remaining/total of the phase (the wrapped
\* phase when paused); it lies in [0,1]; it is 0 for Idle and at the instant a
\* phase is entered; within a phase it is 1 exactly for remaining 0; and a
\* tick that stays in the phase never decreases it.
C16_SessionProgress ==
    /\ [](LET p == SessionProgress(state, remaining)
              total == TotalDuration(state)
          IN  /\ p.den > 0 /\ 0 <= p.num /\ p.num <= p.den
              /\ p.num * total = (total - remaining) * p.den
              /\ state = Idle => p.num = 0
              /\ (hist.clean /\ hist.began = now) => p.num = 0
              /\ state # Idle =>
                    \A r \in 0..total :
                        (SessionProgress(state, r).num = SessionProgress(state, r).den)
                            <=> (r = 0))
    /\ [][(Tick /\ state' = state) =>
            LET p == SessionProgress(state, remaining)
                q == SessionProgress(state', remaining')
            IN  q.num * p.den >= p.num * q.den]_vars

C16_Witness ==
    /\ state = ShortBreak(1)
    /\ hist.clean
    /\ remaining = 2
    /\ SessionProgress(state, remaining) = [num |-> 3, den |-> 5]

\* C17: one AnimationEngine::tick call advances frame_index by exactly one if
\* at least 1000/fps ms have elapsed since last_frame_time and by zero
\* otherwise, however long the gap.
C17_OneFramePerTick ==
    [][AnimTick =>
         frame_index' = frame_index
             + (IF now_ms - last_frame_time >= 1000 \div fps THEN 1 ELSE 0)]_vars

C17_Witness ==
    /\ anim_hist.event = "longGapFrame"
    /\ frame_index = 1
    /\ last_frame_time = now_ms
    /\ now_ms >= THEME_ROTATION_SECS * 1000

\* C18: after any tick call the frame rate is 5 if the session state handed
\* to the call is a ShortBreak and 10 otherwise, whether or not the call
\* advanced a frame.
C18_FpsFollowsPhaseOnEveryTick ==
    [][\A st \in TickStates, auto_rotate \in BOOLEAN :
       \A seed \in SeedsRead(auto_rotate) :
          AnimTickWith(st, auto_rotate, seed) =>
              fps' = IF st.kind = "ShortBreak" THEN BREAK_FPS ELSE NORMAL_FPS]_vars

\* C19: a tick changes the theme exactly when auto_rotate is on and at least
\* 150 s have elapsed since the theme was last set (at construction, by a
\* rotation or by set_theme); every such setting restarts the 150 s, so the
\* engine's last_theme_change is always the time the theme was last set.
C19_RotatesAfterInterval ==
    /\ [](last_theme_change = anim_hist.theme_set)
    /\ [][\A st \in TickStates, auto_rotate \in BOOLEAN :
       \A seed \in SeedsRead(auto_rotate) :
            AnimTickWith(st, auto_rotate, seed) =>
                /\ (current_theme' # current_theme)
                      <=> (auto_rotate
                           /\ now_ms - anim_hist.theme_set >= THEME_ROTATION_SECS * 1000)
                /\ current_theme' # current_theme => last_theme_change' = now_ms]_vars

C19_Witness ==
    /\ anim_hist.event = "rotated"
    /\ now_ms = THEME_ROTATION_SECS * 1000 + ClockGrainMs
    /\ last_theme_change = now_ms
    /\ frame_index = 0

\* C20: rotate_theme() never selects the theme that is active when it is
\* called, whatever the active theme and the seed.
C20_RotateThemeDiffers ==
    /\ [](\A current \in ThemeType, seed \in AnySeed :
            /\ RandomExcept(current, seed) # current
            /\ RandomExcept(current, seed) \in ThemeType)
    /\ [][AnimRotateTheme => current_theme' # current_theme]_vars

C20_Witness ==
    /\ anim_hist.event = "rotateProbed"
    /\ current_theme = "Matrix"
    /\ last_theme_change = now_ms

\* C15: no operation panics.  In every state reached by the timer's methods,
\* the key handlers and App::tick, advance_state has not hit unreachable!()
\* (a Paused state wraps a running phase, never Idle or Paused),
\* cycle_position is a u8, remaining is not negative, the hint flash counter
\* is not negative, and the picker index and the theme it selected are
\* inside the theme list.
C15_NoPanic ==
    /\ state.kind # "Panic"
    /\ state.kind = "Paused" => state.inner.kind \in {"Work", "ShortBreak", "LongBreak"}
    /\ cycle_position \in 0..U8Max
    /\ remaining >= 0
    /\ app.hint_flash_frames \in 0..HINT_FLASH_FRAMES
    /\ app.theme_selector_index \in 0..(Len(ThemeAll) - 1)
    /\ current_theme \in ThemeType
    /\ fps > 0

C15_Witness ==
    /\ state = LongBreak
    /\ cycle_position = LongBreakAfter
    /\ app.theme_selector_open
    /\ app.theme_selector_index = Len(ThemeAll) - 1
    /\ current_theme = "Synthwave"
    /\ last_theme_change = now_ms
    /\ now = WORK_DURATION + SHORT_BREAK_DURATION

\* C22: AnimationEngine::reset sets frame_index to 0 (and last_frame_time to
\* the present) and leaves the active theme, the active font and
\* last_theme_change as they were.
C22_ResetKeepsThemeAndFont ==
    [][AnimReset =>
         /\ frame_index' = 0
         /\ last_frame_time' = now_ms
         /\ current_theme' = current_theme
         /\ current_font' = current_font
         /\ last_theme_change' = last_theme_change
         /\ fps' = fps]_vars

C22_Witness ==
    /\ anim_hist.event = "resetFrames"
    /\ frame_index = 0
    /\ current_font = "LCD"
    /\ current_theme = "Fire"
    /\ last_theme_change < now_ms
    /\ last_frame_time = now_ms

\* C21: every skip (Tab on the Timer screen) takes the session to the start
\* of its next phase, running, and changes the theme to a different one and
\* restarts the rotation interval, whenever the theme last changed and
\* whether or not auto-rotation is on.
C21_SkipAdvancesAndRotates ==
    [][KeySkipToNext =>
         /\ current_theme' # current_theme
         /\ current_theme' \in ThemeType
         /\ last_theme_change' = now_ms
         /\ state'.kind \in {"Work", "ShortBreak", "LongBreak"}
         /\ state'.kind # InnerState(state).kind
         /\ (state'.kind = "Work") <=> (InnerState(state).kind # "Work")
         /\ remaining' = TotalDuration(state')
         /\ last_tick' = Some(now)
         /\ app' = app]_vars

C21_Witness ==
    /\ now = 0
    /\ app.screen = "Timer"
    /\ ~app.auto_rotate
    /\ state = ShortBreak(1)
    /\ cycle_position = 1
    /\ remaining = SHORT_BREAK_DURATION
    /\ current_theme = "Starfield"
    /\ last_theme_change = now_ms

\* C23: returning to the menu leaves a fresh Idle timer (remaining 0,
\* cycle_position 0, clock disarmed) whatever was abandoned, the timer stays
\* so while the menu is shown, and the next start from the menu begins at
\* Work{1} with the full work duration and cycle_position 0.
C23_QuitReplacesTimer ==
    /\ [][KeyQuitToMenu =>
            /\ state' = Idle
            /\ remaining' = 0
            /\ cycle_position' = 0
            /\ last_tick' = None
            /\ app'.screen = "Menu"]_vars
    /\ [](app.screen = "Menu" =>
            state = Idle /\ remaining = 0 /\ cycle_position = 0 /\ last_tick = None)
    /\ [][KeyMenuSelect =>
            /\ state' = Work(1)
            /\ remaining' = WORK_DURATION
            /\ cycle_position' = 0
            /\ last_tick' = Some(now)]_vars

C23_Witness ==
    /\ app.screen = "Menu"
    /\ ops = 2
    /\ state = Idle
    /\ cycle_position = 0
    /\ now = WORK_DURATION + SHORT_BREAK_DURATION
    /\ current_theme = "Starfield"
    /\ ~app.theme_selector_open

\* C25: the size category is a function of (width, height) with every
\* threshold on the larger side: TooSmall iff width < 40 or height < 15,
\* else Compact iff width < 60 or height < 20, else Medium iff width < 100 or
\* height < 30, else Large iff width < 150 or height < 45, else ExtraLarge.
C25_SizeClassification ==
    LET w == app.scaling.width
        h == app.scaling.height
        c == app.scaling.size_category
    IN  /\ c \in {"TooSmall", "Compact", "Medium", "Large", "ExtraLarge"}
        /\ (c = "TooSmall") <=> (w < 40 \/ h < 15)
        /\ (c = "Compact") <=> (w >= 40 /\ h >= 15 /\ (w < 60 \/ h < 20))
        /\ (c = "Medium") <=> (w >= 60 /\ h >= 20 /\ (w < 100 \/ h < 30))
        /\ (c = "Large") <=> (w >= 100 /\ h >= 30 /\ (w < 150 \/ h < 45))
        /\ (c = "ExtraLarge") <=> (w >= 150 /\ h >= 45)
        /\ <<w, h>> = <<40, 15>> => c = "Compact"
        /\ <<w, h>> = <<60, 20>> => c = "Medium"
        /\ <<w, h>> = <<100, 30>> => c = "Large"
        /\ <<w, h>> = <<150, 45>> => c = "ExtraLarge"
        /\ <<w, h>> = <<30, 10>> => c = "TooSmall"
        /\ <<w, h>> = <<50, 18>> => c = "Compact"
        /\ <<w, h>> = <<80, 24>> => c = "Medium"
        /\ <<w, h>> = <<120, 40>> => c = "Large"
        /\ <<w, h>> = <<200, 50>> => c = "ExtraLarge"

C25_Witness ==
    /\ app.scaling.width = 150
    /\ app.scaling.height = 45
    /\ app.scaling.size_category = "ExtraLarge"
    /\ current_font = "Outlined"

\* C26: for every fixture size the font ScalingContext::new recommends is
\* the font select_font_for_size returns.
C26_EntryPointsAgree ==
    (/\ selected # None
     /\ <<app.scaling.width, app.scaling.height>>
           \in { <<30, 10>>, <<50, 18>>, <<50, 20>>, <<80, 24>>, <<120, 40>>,
                 <<150, 50>>, <<200, 50>> })
        => selected[1] = app.scaling.recommended_font

\* C27: select_font_for_size returns the largest catalogue font whose
\* rendered timer (4 x font width + colon width + padding wide, font height
\* high) fits in 60% of the width and 40% of the height: the returned font
\* fits whenever some catalogue font fits, no later (larger) catalogue font
\* fits, and Classic is returned when none fits.
C27_LargestFittingFont ==
    selected # None =>
        LET w == app.scaling.width
            h == app.scaling.height
            RenderedFits(font) ==
                /\ RenderedTimerWidth(font) <= AvailableWidth(w)
                /\ FontHeight(font) <= AvailableHeight(h)
            fitting == { i \in 1..Len(FontsBySize) :
                            RenderedFits(FontsBySize[i][1]) }
        IN  /\ fitting # {} => RenderedFits(selected[1])
            /\ \A i \in fitting : i <= CatalogueIndex(selected[1])
            /\ fitting = {} => selected[1] = "Classic"

\* C28: select_font_for_size returns a font at most 7 rows high for every
\* Compact terminal and a font at least 9 rows high for every ExtraLarge
\* terminal.
C28_SmallFontsForSmallTerminals ==
    selected # None =>
        /\ app.scaling.size_category = "Compact" => FontHeight(selected[1]) <= 7
        /\ app.scaling.size_category = "ExtraLarge" => FontHeight(selected[1]) >= 9

\* C29: in every reachable state the whole ScalingContext is what
\* ScalingContext::new yields for the stored width and height (category,
\* recommended font, detail level within 0..3, the three flags, the timer
\* area height), and only a resize changes any field of it.
C29_ContextOfStoredSize ==
    /\ app.scaling = ScalingContextNew(app.scaling.width, app.scaling.height)
    /\ app.scaling.background_detail_level \in 0..3
    /\ app.scaling.timer_area_height
          = FontHeight(app.scaling.recommended_font) + TIMER_AREA_PADDING

C29_OnlyResizeChangesContext ==
    [][app'.scaling # app.scaling => ScaleResize]_vars

C29_Holds == C29_OnlyResizeChangesContext /\ []C29_ContextOfStoredSize

\* resized from 80x24 to 120x40 while a session runs
C29_Witness ==
    /\ app.screen = "Timer"
    /\ app.scaling.width = 120
    /\ app.scaling.size_category = "Large"
    /\ app.scaling.recommended_font = "Block3D"
    /\ ~app.adaptive_font

\* C30: the 'f' key cycles the font and leaves adaptive_font false; while
\* adaptive_font is false a resize leaves the active font (and the flag) as
\* they are; only 'f' and 'F' change the flag, and 'F' pressed while it is
\* false sets it and makes the active font the context's recommended font at
\* once; no step that changes the font changes the theme.
C30_FontKeys ==
    [][ /\ KeyNextFont =>
              /\ ~app'.adaptive_font
              /\ current_font' = NextFont(current_font)
        /\ (ScaleResize /\ ~app.adaptive_font) =>
              /\ current_font' = current_font
              /\ ~app'.adaptive_font
        /\ app'.adaptive_font # app.adaptive_font =>
              (KeyNextFont \/ KeyToggleAdaptiveFont)
        /\ (KeyToggleAdaptiveFont /\ ~app.adaptive_font) =>
              /\ app'.adaptive_font
              /\ current_font' = app'.scaling.recommended_font
        /\ current_font' # current_font => current_theme' = current_theme
      ]_vars

\* 'f' was pressed in an 80x24 terminal, which was then resized to 120x40:
\* the font is still the one 'f' chose
C30_Witness ==
    /\ ~app.adaptive_font
    /\ app.scaling.width = 120
    /\ app.scaling.recommended_font = "Block3D"
    /\ current_font = "Outlined"

\* C24: whenever run_app is about to poll for input, the frame on the
\* screen was drawn from the current fields and no event was handled and no
\* tick made since; between two draws at most one event is handled and
\* exactly one tick is made, the tick after the event.
C24_DrawnBeforeInputIsRead ==
    /\ loop.events <= 1
    /\ loop.ticks <= 1
    /\ loop.pc = "poll" =>
          /\ loop.drawn = Some(Rendered)
          /\ loop.events = 0
          /\ loop.ticks = 0
    /\ loop.pc = "tick" => loop.ticks = 0
    /\ (loop.pc = "draw" /\ loop.drawn # None) => loop.ticks = 1

\* polling again after a pass in which a key was handled and the tick moved
\* the timer on
C24_Witness ==
    /\ loop.pc = "poll"
    /\ app.screen = "Timer"
    /\ state.kind = "ShortBreak"
    /\ notified # ""
    /\ now > 0

\* C31: from whatever font the engine has, next() applied as many times as
\* all() has fonts comes back to that font, and the fonts passed on the way
\* are all the fonts of all(), each once.
C31_NextIsOneCycle ==
    LET n == Len(DigitFontAll)
        visited == [k \in 1..n |-> NextFontTimes(current_font, k)]
    IN  /\ visited[n] = current_font
        /\ { visited[k] : k \in 1..n } = { DigitFontAll[i] : i \in 1..n }
        /\ \A j, k \in 1..n : visited[j] = visited[k] => j = k

\* next_font has wrapped around from the last font of all() to the first
C31_Witness ==
    /\ current_font = "Classic"
    /\ NextFont("LCD") = current_font

\* C32: every glyph drawn for a time has as many rows as the font's
\* height(), the colon included, and every row of a digit glyph is width()
\* characters long.
C32_GlyphDimensions ==
    selected # None =>
        LET font == selected[1].font
            glyphs == selected[1].glyphs
        IN  \A g \in 1..Len(glyphs) :
                /\ Len(glyphs[g]) = FontHeight(font)
                /\ g # 3 => \A r \in 1..Len(glyphs[g]) : glyphs[g][r] = FontWidth(font)

\* C33: a pass of the tray's loop whose read of the status file fails (the
\* file is missing or holds only part of a document) leaves the tray running
\* and what it shows unchanged; the tray never panics; and the loop ends
\* only through the Quit menu item.
C33_FailedReadIsNotFatal ==
    [][ /\ (TrayPoll /\ ReadStatus(status_file) = None) =>
              /\ tray'.pc = "run"
              /\ tray'.shown = tray.shown
              /\ tray'.last_read = "err"
        /\ tray'.pc # "panic"
        /\ (tray.pc = "run" /\ tray'.pc # "run") => TrayQuit
      ]_vars

\* the tray shows a snapshot it read earlier, its last read failed on a
\* partly written file, and it is still running
C33_Witness ==
    /\ tray.pc = "run"
    /\ tray.last_read = "err"
    /\ status_file.kind = "partial"
    /\ tray.shown.tooltip = <<"Work", 0, 59>>

\* C34: after the picker is cancelled (Esc or T while it is open) the
\* active theme is the theme that was active when the picker was opened.
C34_CancelRestoresTheme ==
    [][KeySelectorCancel => current_theme' = picker_hist[1]]_vars

\* C39: while the picker is open the index is within ThemeType::all() and
\* the active theme is the entry it points at.
C39_PreviewIsHighlighted ==
    (app.screen = "Timer" /\ app.theme_selector_open) =>
        /\ app.theme_selector_index \in 0..(Len(ThemeAll) - 1)
        /\ current_theme = ThemeAll[app.theme_selector_index + 1]

\* C35: a tick that finds the countdown expired, by however much, moves the
\* timer on by exactly one phase (Work to a break, a break to Work, the
\* cycle position one step on) and leaves the new phase its full duration,
\* counted from the moment of the tick.
C35_OneTransitionPerTick ==
    [][(/\ Tick
        /\ IsRunning(state)
        /\ last_tick # None
        /\ now - last_tick[1] >= remaining) =>
         /\ IsRunning(state')
         /\ (state.kind = "Work") = (state'.kind \in {"ShortBreak", "LongBreak"})
         /\ (state.kind \in {"ShortBreak", "LongBreak"}) = (state'.kind = "Work")
         /\ cycle_position' = (CASE state.kind = "Work" -> cycle_position + 1
                                 [] state.kind = "LongBreak" -> 0
                                 [] OTHER -> cycle_position)
         /\ remaining' = TotalDuration(state')
         /\ last_tick' = Some(now)]_vars

\* a tick came so late that the next phase would have been over as well: a
\* short break that ran 25 minutes or more past its end, followed by a full
\* Work phase
C35_Witness ==
    /\ hist.overshoot
    /\ state = Work(1)
    /\ notified = "Short break"
    /\ remaining = WORK_DURATION
    /\ last_tick = Some(now)

\* C36: the screen is Timer exactly when the session phase is not Idle (a
\* paused session counts by the phase it pauses): the Menu screen never has a
\* running or paused session, the Timer screen never an Idle one.
C36_ScreenMatchesSession ==
    /\ app.screen \in {"Menu", "Timer"}
    /\ (app.screen = "Timer") <=> (InnerState(state).kind # "Idle")
    /\ app.screen = "Menu" => state = Idle

\* back on the menu after a session that was paused and left with q
C36_Witness ==
    /\ app.screen = "Menu"
    /\ state = Idle
    /\ ops = 2
    /\ now > 0

\* C37: an app tick issues a notification exactly when it is made on the
\* Timer screen, finds the running countdown expired and changes the phase,
\* and the notification names the phase that ended; Space, r, Tab and q
\* issue none.
C37_NotificationOnExpiryOnly ==
    [][ /\ AppTick =>
              /\ (notified' # "") <=>
                    /\ app.screen = "Timer"
                    /\ IsRunning(state)
                    /\ last_tick # None
                    /\ now - last_tick[1] >= remaining
              /\ notified' # "" =>
                    /\ state'.kind # state.kind
                    /\ notified' = (CASE state.kind = "Work" -> "Work session"
                                      [] state.kind = "ShortBreak" -> "Short break"
                                      [] state.kind = "LongBreak" -> "Long break")
              /\ notified' = "" => state'.kind = state.kind
        /\ (KeyTogglePause \/ KeyResetSession \/ KeySkipToNext \/ KeyQuitToMenu) =>
              notified' = ""
      ]_vars

\* a tick has just ended a long break and said so
C37_Witness ==
    /\ app.screen = "Timer"
    /\ notified = "Long break"
    /\ state = Work(1)
    /\ cycle_position = 0

\* C38: whenever adaptive font mode is on, the engine's font is the font
\* the ScalingContext recommends, from the initial state on.
C38_AdaptiveFontIsRecommended ==
    app.adaptive_font => current_font = app.scaling.recommended_font

=============================================================================
